---- MODULE Spec2Model ----
(***************************************************************************)
(* Propagation and link-budget engine of iono: the HF solver (two source   *)
(* variants), the V/UHF solver, and the predictPath / predictLink          *)
(* dispatcher.                                                             *)
(*                                                                         *)
(* Numbers.  The engine works on IEEE doubles; the model works on          *)
(* fixed-point integers with these units:                                  *)
(*   frequency   f10   tenths of a MHz          (71 = 7.1 MHz)             *)
(*   distance    m     metres                   (ctx.distance_km * 1000)   *)
(*   height      dm    decimetres               (15 = 1.5 m)               *)
(*   kFactor     k100  hundredths               (133 = 1.33)               *)
(*   loss, gain  cdB   hundredths of a dB / dBm (3244 = 32.44 dB)          *)
(*   power       dW    tenths of a watt         (100 = 10 W)               *)
(* A value that the code can make non-finite is a record                   *)
(* [k |-> "fin" | "pinf" | "ninf" | "nan", v |-> Int].                     *)
(***************************************************************************)
EXTENDS Integers, Sequences, FiniteSets, TLC

\* history lists the calls made so far, each with its arguments and its
\* results.  The modules themselves keep no variable between calls.
VARIABLE history

(***************************************************************************)
(* Fixed-point kernel: Math.max/min, Math.sqrt, Math.log10, Math.ceil      *)
(***************************************************************************)
Max(a, b) == IF a >= b THEN a ELSE b

Min(a, b) == IF a <= b THEN a ELSE b

Abs(a) == IF a >= 0 THEN a ELSE -a

\* floor(a*b/c) for a, b >= 0, c > 0 without forming a*b
MulDiv(a, b, c) == (a \div c) * b + ((a % c) * b) \div c

\* Math.ceil(a/b) for a >= 0, b > 0
CeilDiv(a, b) == (a + b - 1) \div b

RECURSIVE Bisect(_, _, _)
Bisect(n, lo, hi) ==
  IF lo >= hi THEN lo
  ELSE LET mid == (lo + hi + 1) \div 2
       IN IF mid * mid <= n THEN Bisect(n, mid, hi) ELSE Bisect(n, lo, mid - 1)

\* Math.sqrt on non-negative integers: floor of the root
Isqrt(n) == Bisect(n, 0, Min(n, 46340))

RECURSIVE FloorLog2(_)
FloorLog2(n) == IF n < 2 THEN 0 ELSE 1 + FloorLog2(n \div 2)

\* n scaled into [2^14, 2^15)
Mantissa(n) ==
  LET e == FloorLog2(n)
  IN IF e >= 14 THEN n \div 2^(e - 14) ELSE n * 2^(14 - e)

\* k fractional bits of log2 of the mantissa m, by repeated squaring
RECURSIVE FracBits(_, _)
FracBits(m, k) ==
  IF k = 0 THEN 0
  ELSE LET s == (m * m) \div 16384
       IN IF s >= 32768 THEN 2^(k - 1) + FracBits(s \div 2, k - 1)
          ELSE FracBits(s, k - 1)

\* Math.log10(n) for an integer n >= 1, in units of 1e-4
Log10E4(n) ==
  (FloorLog2(n) * 30103) \div 10 + (FracBits(Mantissa(n), 12) * 30103) \div 40960

\* 20*log10(n) in cdB
dB20(n) == Log10E4(n) \div 5

\* 10*log10(n) in cdB
dB10(n) == Log10E4(n) \div 10

(***************************************************************************)
(* Numbers that may be non-finite (IEEE +Infinity, -Infinity, NaN)         *)
(***************************************************************************)
Fin(x) == [k |-> "fin", v |-> x]

PosInf == [k |-> "pinf", v |-> 0]

NegInf == [k |-> "ninf", v |-> 0]

NaN == [k |-> "nan", v |-> 0]

\* Number.isFinite
isFinite(x) == x.k = "fin"

\* Number.isNaN
isNaN(x) == x.k = "nan"

NumNeg(a) ==
  CASE a.k = "fin" -> Fin(-a.v)
    [] a.k = "pinf" -> NegInf
    [] a.k = "ninf" -> PosInf
    [] OTHER -> NaN

\* IEEE a + b
NumAdd(a, b) ==
  CASE a.k = "nan" \/ b.k = "nan" -> NaN
    [] a.k = "fin" /\ b.k = "fin" -> Fin(a.v + b.v)
    [] a.k = "fin" -> b
    [] b.k = "fin" -> a
    [] a.k = b.k -> a
    [] OTHER -> NaN

\* IEEE a - b
NumSub(a, b) == NumAdd(a, NumNeg(b))

(***************************************************************************)
(* src/src/propagation/hfModel.ts  (HF propagation V1.5)                   *)
(***************************************************************************)
\* the 1e6 dB loss of a BLOCKED path, in cdB
BLOCKED_LOSS == 100000000

Blocked == [loss_dB |-> Fin(BLOCKED_LOSS), mode |-> "BLOCKED"]

\* fspl_dB(d_km, f_MHz) = 32.44 + 20 log10(dk) + 20 log10(fm), in cdB.
\* d in metres, f in tenths of a MHz; the 1e-6 clamps of the code lie below
\* one unit of either, so they become the clamp to one unit.
fspl_dB(d_m, f10) ==
  3244 + (dB20(Max(d_m, 1)) - 6000) + (dB20(Max(f10, 1)) - 2000)

\* the excess-loss slopes with the sea and the dry ground exchanged
kg_by_ground_Swapped(ground) ==
  CASE ground = "sea" -> 8
    [] ground = "wet" -> 5
    [] OTHER -> 2

\* k_g * 100
kg_by_ground(ground) ==
  CASE ground = "sea" -> 2
    [] ground = "wet" -> 5
    [] OTHER -> 8

\* the ground-wave gate testing the frequency only
groundwave_applicable_NoRange(f10, d_m) == f10 <= 100

groundwave_applicable(f10, d_m) == f10 <= 100 /\ d_m <= 300000

\* L_gw = FSPL + k_g * d_km * sqrt(f_MHz); +Infinity outside the domain
groundwave_loss_dB(d_m, f10, ground) ==
  IF ~groundwave_applicable(f10, d_m) THEN PosInf
  ELSE LET Lfs == fspl_dB(d_m, f10)
           sqrt_milli == Isqrt(Max(f10, 0) * 100000)
           excess == MulDiv(kg_by_ground(ground) * d_m, sqrt_milli, 1000) \div 1000
       IN Fin(Lfs + excess)

\* the class-dependent term k_g * d_km * sqrt(f_MHz) of the ground-wave loss,
\* in units of 1e-7 dB, below the resolution of the loss itself
groundwave_excess_fine(d_m, f10, ground) ==
  kg_by_ground(ground) * MulDiv(Max(d_m, 0), Isqrt(Max(f10, 0) * 100000), 10)

H_F2_KM == 300

\* first_hop_skip_km(H_F2_KM, MIN_TAKEOFF_DEG = 10) = 600 tan(10 deg), in metres
first_hop_skip_m == 105796

\* The angle atan(opp / adj), kept as the two legs (metres)
takeoff_angle_rad_from_range(d_m, h_km) ==
  [opp |-> Max(d_m, 1), adj |-> 2 * Max(h_km, 1) * 1000]

\* 1000 * tan(alpha)
TanMilli(alpha) == MulDiv(alpha.opp, 1000, alpha.adj)

\* 1000 / cos(alpha) = 1000 * sqrt(1 + tan^2)
SecMilli(alpha) == Isqrt(1000000 + TanMilli(alpha) * TanMilli(alpha))

\* the cosine taken for the secant: foF2 * cos(alpha)
muf_secant_MHz_Cosine(foF2_10, alpha) == (foF2_10 * 1000000) \div SecMilli(alpha)

\* the secant law with its operands swapped: sec(alpha) / foF2
muf_secant_MHz_Swapped(foF2_10, alpha) == (100 * SecMilli(alpha)) \div foF2_10

\* foF2 * sec(alpha), in units of 1e-4 MHz
muf_secant_MHz(foF2_10, alpha) == foF2_10 * SecMilli(alpha)

\* 10 * max(f, 0.1)^-2 * sec(alpha), in cdB
absorption_per_hop_dB(f10, alpha) ==
  (100 * SecMilli(alpha)) \div (Max(f10, 1) * Max(f10, 1))

\* 2 * H_F2_KM * Math.tan(alpha) in centimetres.  alpha = Math.atan(d / 600):
\* in real arithmetic the product is d again; the two library calls are
\* implementation-approximated, so the double is d or a neighbour of d.
\* ulp in {-1, 0, 1} is the sign of that rounding error.
hop_range_cm(alpha, ulp) ==
  MulDiv(2 * H_F2_KM * 100000, alpha.opp, alpha.adj) + ulp

skywave_hops(d_m, alpha, ulp) ==
  Max(1, CeilDiv(100 * d_m, Max(hop_range_cm(alpha, ulp), 100)))

skywave_loss_dB(d_m, f10, foF2_10, ulp) ==
  IF f10 > 300 \/ d_m <= 50000 \/ foF2_10 <= 0 THEN Blocked
  ELSE LET alpha == takeoff_angle_rad_from_range(d_m, H_F2_KM)
           muf == muf_secant_MHz(foF2_10, alpha)
           hops == skywave_hops(d_m, alpha, ulp)
           \* (2 H) / max(sin(alpha), 1e-6), sin = tan / sec
           slant_per_hop_m ==
             MulDiv(2 * H_F2_KM * 1000, SecMilli(alpha), Max(TanMilli(alpha), 1))
           L_fs_per_hop == fspl_dB(slant_per_hop_m, f10)
           A_absorb == absorption_per_hop_dB(f10, alpha)
           total == hops * (L_fs_per_hop + A_absorb)
                      + (IF hops > 1 THEN (hops - 1) * 300 ELSE 0)
       IN IF f10 * 1000 > muf THEN Blocked
          ELSE IF d_m < first_hop_skip_m THEN Blocked
          ELSE IF hops > 2 THEN Blocked
          ELSE [loss_dB |-> Fin(total), mode |-> "IONO"]

H_E_KM == 110

\* 1000 / cos(NVIS_ALPHA_DEG = 80 deg)
NVIS_SEC_MILLI == 5759

\* (2 * H_E_KM) / sin(80 deg), in metres
NVIS_SLANT_M == 223394

\* nvis_loss_dB without its MUF gate
nvis_loss_dB_NoMufGate(d_m, f10, foF2_10) ==
  IF f10 > 70 \/ d_m > 500000 \/ foF2_10 <= 0 THEN Blocked
  ELSE LET L_fs == fspl_dB(NVIS_SLANT_M, f10)
           A_absorb == (150 * NVIS_SEC_MILLI) \div (Max(f10, 1) * Max(f10, 1))
       IN [loss_dB |-> Fin(L_fs + A_absorb), mode |-> "NVIS"]

nvis_loss_dB(d_m, f10, foF2_10) ==
  IF f10 > 70 \/ d_m > 500000 \/ foF2_10 <= 0 THEN Blocked
  ELSE LET muf == foF2_10 * NVIS_SEC_MILLI
           L_fs == fspl_dB(NVIS_SLANT_M, f10)
           A_absorb == (150 * NVIS_SEC_MILLI) \div (Max(f10, 1) * Max(f10, 1))
       IN IF f10 * 1000 > muf THEN Blocked
          ELSE [loss_dB |-> Fin(L_fs + A_absorb), mode |-> "NVIS"]

\* ctx.hf?.foF2_MHz ?? 0
hf_foF2(ctx) == IF ctx.hf.present THEN ctx.hf.foF2_MHz ELSE 0

\* !!ctx.hf?.NVIS_enabled
hf_nvis(ctx) == ctx.hf.present /\ ctx.hf.NVIS_enabled

\* ctx.hf?.propagationMode ("undefined" when absent)
hf_mode(ctx) == IF ctx.hf.present THEN ctx.hf.propagationMode ELSE "undefined"

HFTryNvis(d, f, foF2, nvis) ==
  IF nvis /\ f <= 70 /\ d <= 500000 /\ foF2 > 0
  THEN nvis_loss_dB(d, f, foF2) ELSE Blocked

HFTrySky(d, f, foF2, ulp) ==
  IF foF2 > 0 THEN skywave_loss_dB(d, f, foF2, ulp) ELSE Blocked

HFUsable(res) == res.mode # "BLOCKED" /\ isFinite(res.loss_dB)

\* solveHF with the ground-wave fallback tried before the sky-wave regime
solveHF_GroundBeforeSky(tx, rx, env, ctx, ulp) ==
  LET f == tx.frequency_MHz
      d == Max(ctx.distance_km, 1)
      mode == hf_mode(ctx)
      foF2 == hf_foF2(ctx)
      nvis == hf_nvis(ctx)
      gw == groundwave_loss_dB(d, f, env.groundClass)
      nres == HFTryNvis(d, f, foF2, nvis)
      sres == HFTrySky(d, f, foF2, ulp)
  IN IF mode = "ground"
     THEN (IF isFinite(gw) THEN [loss_dB |-> gw, mode |-> "GROUND"] ELSE Blocked)
     ELSE IF mode = "sky"
     THEN (IF HFUsable(nres) THEN nres
           ELSE IF HFUsable(sres) THEN sres
           ELSE Blocked)
     ELSE IF HFUsable(nres) THEN nres
     ELSE IF isFinite(gw) THEN [loss_dB |-> gw, mode |-> "GROUND"]
     ELSE IF HFUsable(sres) THEN sres
     ELSE Blocked

\* solveHF returning the ground-wave helper's value without the isFinite test
solveHF_NoFiniteCheck(tx, rx, env, ctx, ulp) ==
  LET f == tx.frequency_MHz
      d == Max(ctx.distance_km, 1)
      mode == hf_mode(ctx)
      foF2 == hf_foF2(ctx)
      nvis == hf_nvis(ctx)
      gw == groundwave_loss_dB(d, f, env.groundClass)
      nres == HFTryNvis(d, f, foF2, nvis)
      sres == HFTrySky(d, f, foF2, ulp)
  IN IF mode = "ground" THEN [loss_dB |-> gw, mode |-> "GROUND"]
     ELSE IF mode = "sky"
     THEN (IF HFUsable(nres) THEN nres
           ELSE IF HFUsable(sres) THEN sres
           ELSE Blocked)
     ELSE IF HFUsable(nres) THEN nres
     ELSE IF HFUsable(sres) THEN sres
     ELSE [loss_dB |-> gw, mode |-> "GROUND"]

\* solveHF working with ctx.distance_km itself, without the 0.001 km floor
solveHF_NoFloor(tx, rx, env, ctx, ulp) ==
  LET f == tx.frequency_MHz
      d == ctx.distance_km
      mode == hf_mode(ctx)
      foF2 == hf_foF2(ctx)
      nvis == hf_nvis(ctx)
      gw == groundwave_loss_dB(d, f, env.groundClass)
      nres == HFTryNvis(d, f, foF2, nvis)
      sres == HFTrySky(d, f, foF2, ulp)
  IN IF mode = "ground"
     THEN (IF isFinite(gw) THEN [loss_dB |-> gw, mode |-> "GROUND"] ELSE Blocked)
     ELSE IF mode = "sky"
     THEN (IF HFUsable(nres) THEN nres
           ELSE IF HFUsable(sres) THEN sres
           ELSE Blocked)
     ELSE IF HFUsable(nres) THEN nres
     ELSE IF HFUsable(sres) THEN sres
     ELSE IF isFinite(gw) THEN [loss_dB |-> gw, mode |-> "GROUND"]
     ELSE Blocked

solveHF(tx, rx, env, ctx, ulp) ==
  LET f == tx.frequency_MHz
      d == Max(ctx.distance_km, 1)
      mode == hf_mode(ctx)
      foF2 == hf_foF2(ctx)
      nvis == hf_nvis(ctx)
      gw == groundwave_loss_dB(d, f, env.groundClass)
      nres == HFTryNvis(d, f, foF2, nvis)
      sres == HFTrySky(d, f, foF2, ulp)
  IN IF mode = "ground"
     THEN (IF isFinite(gw) THEN [loss_dB |-> gw, mode |-> "GROUND"] ELSE Blocked)
     ELSE IF mode = "sky"
     THEN (IF HFUsable(nres) THEN nres
           ELSE IF HFUsable(sres) THEN sres
           ELSE Blocked)
     ELSE IF HFUsable(nres) THEN nres
     ELSE IF HFUsable(sres) THEN sres
     ELSE IF isFinite(gw) THEN [loss_dB |-> gw, mode |-> "GROUND"]
     ELSE Blocked

(***************************************************************************)
(* src/unnamed/part_003  (hfModel.ts, "official equations" variant)        *)
(***************************************************************************)
\* theta_rad = deg * Math.PI / 180, in units of 1e-4 rad (deg in 1e-2 degree)
RadE4(cdeg) == (cdeg * 17453) \div 10000

\* Math.cos in units of 1e-4, by its Taylor series (|theta| <= 90 deg)
CosE4(cdeg) ==
  LET x == RadE4(cdeg)
      x2 == (x * x) \div 10000
      x4 == (x2 * x2) \div 10000
      x6 == (x4 * x2) \div 10000
      x8 == (x6 * x2) \div 10000
      x10 == (x8 * x2) \div 10000
  IN 10000 - x2 \div 2 + x4 \div 24 - x6 \div 720 + x8 \div 40320 - x10 \div 3628800

\* Math.sin in units of 1e-4, by its Taylor series
SinE4(cdeg) ==
  LET x == RadE4(cdeg)
      x2 == (x * x) \div 10000
      x3 == (x * x2) \div 10000
      x5 == (x3 * x2) \div 10000
      x7 == (x5 * x2) \div 10000
      x9 == (x7 * x2) \div 10000
      x11 == (x9 * x2) \div 10000
  IN x - x3 \div 6 + x5 \div 120 - x7 \div 5040 + x9 \div 362880 - x11 \div 39916800

\* takeoff_angle_deg(tx_height_m, f_MHz) with the default 'dipole' type:
\* max(15, 45 - 10 log10(max(h / lambda, 0.01))), lambda = 300 / f; in 1e-2 deg.
\* h / lambda = h_dm * f10 / 30000.
takeoff_angle_deg_p3(h_dm, f10) ==
  Max(1500, 4500 - (dB10(Max(h_dm * f10, 300)) - dB10(30000)))

\* ground_factor = sqrt(sigma / (2 pi f_Hz epsilon epsilon_0)), in 1e-2.
\* sigma / (2 pi 1e6 epsilon epsilon_0): sea 1123.47, wet 11.984, dry 4.4939
ground_factor_p3(groundClass, f10) ==
  CASE groundClass = "sea" -> Isqrt(112347000 \div Max(f10, 1))
    [] groundClass = "wet" -> Isqrt(1198400 \div Max(f10, 1))
    [] groundClass = "dry" -> Isqrt(449390 \div Max(f10, 1))
    [] OTHER -> 10

\* sqrt(1 + (d / (2 R))^2), in 1e-3
curvature_factor_p3(d_m) ==
  Isqrt(1000000 + (d_m \div 12742) * (d_m \div 12742))

\* 20 log10(max(h_tx, 10) / 10) + 20 log10(max(h_rx, 10) / 10), in cdB
height_gain_dB_p3(h_tx_dm, h_rx_dm) ==
  (dB20(Max(h_tx_dm, 100)) - dB20(100)) + (dB20(Max(h_rx_dm, 100)) - dB20(100))

\* 20 log10(1 + (d / lambda_km)^2 / ground_factor * curvature), in cdB.
\* d / lambda_km = d_km * f_MHz / 0.3 = d_m * f10 / 3000.
ground_term_p3(d_m, f10, groundClass) ==
  LET r_milli == MulDiv(d_m, f10 * 1000, 3000)
      gf == Max(ground_factor_p3(groundClass, f10), 1)
      cf == curvature_factor_p3(d_m)
      \* (d / lambda)^2 / gf * cf, at the finest scale that fits
      x_e3 == MulDiv(MulDiv((r_milli * r_milli) \div 1000, 100, gf), cf, 1000)
      r_e1 == r_milli \div 100
      x_e1 == MulDiv(MulDiv((r_e1 * r_e1) \div 10, 100, gf), cf, 1000)
      r == r_milli \div 1000
      x == MulDiv(MulDiv(r * r, 100, gf), cf, 1000)
  IN IF r_milli < 46000 THEN dB20(1000 + x_e3) - dB20(1000)
     ELSE IF r_e1 < 46000 THEN dB20(10 + x_e1) - dB20(10)
     ELSE dB20(1 + x)

\* the argument (d / lambda_km)^2 / ground_factor * curvature of the ground
\* term's logarithm, at a scale chosen from d * f alone (1e-12 for the
\* shortest paths, then 1e-6, 1e-3 and 1), so that the values of two ground
\* classes on the same path are comparable
ground_arg_p3(d_m, f10, groundClass) ==
  LET q == d_m * f10
      gf == Max(ground_factor_p3(groundClass, f10), 1)
      cf == curvature_factor_p3(d_m)
      r_micro == q * 333
      r_milli == MulDiv(d_m, f10 * 1000, 3000)
      r == r_milli \div 1000
  IN IF q <= 100 THEN MulDiv(MulDiv(r_micro * r_micro, 100, gf), cf, 1000)
     ELSE IF r_milli < 4600 THEN MulDiv(MulDiv(r_milli * r_milli, 100, gf), cf, 1000)
     ELSE IF r_milli < 46000
          THEN MulDiv(MulDiv((r_milli * r_milli) \div 1000, 100, gf), cf, 1000)
     ELSE MulDiv(MulDiv(r * r, 100, gf), cf, 1000)

groundwave_loss_dB_p3(d_m, f10, groundClass, h_tx_dm, h_rx_dm) ==
  IF f10 > 100 \/ d_m > 300000 THEN PosInf
  ELSE Fin(fspl_dB(d_m, f10) + ground_term_p3(d_m, f10, groundClass)
             - height_gain_dB_p3(h_tx_dm, h_rx_dm))

\* foF2 / cos(theta), in units of 1e-3 MHz
muf_MHz_p3(foF2_10, cdeg) == (foF2_10 * 1000000) \div CosE4(cdeg)

\* 2 * h * tan(theta), in metres
hop_distance_km_p3(iono_height_km, cdeg) ==
  MulDiv(2000 * iono_height_km, SinE4(cdeg), CosE4(cdeg))

\* ground_distance / cos(theta), in metres
slant_distance_km_p3(d_m, cdeg) == MulDiv(d_m, 10000, CosE4(cdeg))

LayerK_p3(layer) == IF layer = "E" THEN 12 ELSE IF layer = "F1" THEN 8 ELSE 6

\* K * f^-2 * sec(theta), in cdB
ionospheric_absorption_dB_p3(f10, cdeg, layer) ==
  ((LayerK_p3(layer) * 100000000) \div (f10 * f10)) \div CosE4(cdeg)

H_F1_KM == 200

skywave_layer_p3(f10) == IF f10 <= 70 THEN "E" ELSE IF f10 <= 100 THEN "F1" ELSE "F2"

skywave_iono_height_p3(f10) ==
  IF f10 <= 70 THEN H_E_KM ELSE IF f10 <= 100 THEN H_F1_KM ELSE H_F2_KM

skywave_hops_p3(d_m, f10, h_tx_dm) ==
  CeilDiv(d_m, hop_distance_km_p3(skywave_iono_height_p3(f10),
                                  takeoff_angle_deg_p3(h_tx_dm, f10)))

\* skywave_loss_dB without the two-hop cap
skywave_loss_dB_p3_NoHopCap(d_m, f10, foF2_10, h_tx_dm) ==
  IF f10 > 300 \/ d_m <= 50000 \/ foF2_10 <= 0 THEN Blocked
  ELSE LET layer == skywave_layer_p3(f10)
           takeoff_angle == takeoff_angle_deg_p3(h_tx_dm, f10)
           muf == muf_MHz_p3(foF2_10, takeoff_angle)
           hops == skywave_hops_p3(d_m, f10, h_tx_dm)
           L_fs == fspl_dB(slant_distance_km_p3(d_m, takeoff_angle), f10)
           L_iono == ionospheric_absorption_dB_p3(f10, takeoff_angle, layer)
           reflection_loss == (hops - 1) * 300
       IN IF f10 * 100 > muf THEN Blocked
          ELSE [loss_dB |-> Fin(L_fs + L_iono + reflection_loss), mode |-> "IONO"]

skywave_loss_dB_p3(d_m, f10, foF2_10, h_tx_dm) ==
  IF f10 > 300 \/ d_m <= 50000 \/ foF2_10 <= 0 THEN Blocked
  ELSE LET layer == skywave_layer_p3(f10)
           takeoff_angle == takeoff_angle_deg_p3(h_tx_dm, f10)
           muf == muf_MHz_p3(foF2_10, takeoff_angle)
           hops == skywave_hops_p3(d_m, f10, h_tx_dm)
           L_fs == fspl_dB(slant_distance_km_p3(d_m, takeoff_angle), f10)
           L_iono == ionospheric_absorption_dB_p3(f10, takeoff_angle, layer)
           reflection_loss == (hops - 1) * 300
       IN IF f10 * 100 > muf THEN Blocked
          ELSE IF hops > 2 THEN Blocked
          ELSE [loss_dB |-> Fin(L_fs + L_iono + reflection_loss), mode |-> "IONO"]

\* the NVIS regime admitting takeoff angles from 65 degrees up
nvis_loss_dB_p3_From65(d_m, f10, foF2_10, h_tx_dm) ==
  IF f10 > 70 \/ d_m > 500000 \/ foF2_10 <= 0 THEN Blocked
  ELSE LET takeoff_angle == takeoff_angle_deg_p3(h_tx_dm, f10)
           muf == muf_MHz_p3(foF2_10, takeoff_angle)
           L_fs == fspl_dB(slant_distance_km_p3(d_m, takeoff_angle), f10)
           L_iono == ionospheric_absorption_dB_p3(f10, takeoff_angle, "E")
           height_gain == IF h_tx_dm <= 0 THEN NegInf
                          ELSE Fin(dB20(h_tx_dm) - dB20(100))
       IN IF takeoff_angle < 6500 THEN Blocked
          ELSE IF f10 * 100 > muf THEN Blocked
          ELSE [loss_dB |-> NumSub(Fin(L_fs + L_iono), height_gain), mode |-> "NVIS"]

nvis_loss_dB_p3(d_m, f10, foF2_10, h_tx_dm) ==
  IF f10 > 70 \/ d_m > 500000 \/ foF2_10 <= 0 THEN Blocked
  ELSE LET takeoff_angle == takeoff_angle_deg_p3(h_tx_dm, f10)
           muf == muf_MHz_p3(foF2_10, takeoff_angle)
           L_fs == fspl_dB(slant_distance_km_p3(d_m, takeoff_angle), f10)
           L_iono == ionospheric_absorption_dB_p3(f10, takeoff_angle, "E")
           \* 20 log10(h_tx_m / 10): -Infinity at height 0
           height_gain == IF h_tx_dm <= 0 THEN NegInf
                          ELSE Fin(dB20(h_tx_dm) - dB20(100))
       IN IF takeoff_angle < 7500 THEN Blocked
          ELSE IF f10 * 100 > muf THEN Blocked
          ELSE [loss_dB |-> NumSub(Fin(L_fs + L_iono), height_gain), mode |-> "NVIS"]

solveHF_p3(tx, rx, env, ctx) ==
  LET f == tx.frequency_MHz
      d == Max(ctx.distance_km, 1)
      foF2 == hf_foF2(ctx)
      nvis == hf_nvis(ctx)
      mode == hf_mode(ctx)
      Lgw == groundwave_loss_dB_p3(d, f, env.groundClass, tx.height_m, rx.height_m)
      nres == nvis_loss_dB_p3(d, f, foF2, tx.height_m)
      sres == skywave_loss_dB_p3(d, f, foF2, tx.height_m)
  IN IF mode = "ground"
     THEN (IF isFinite(Lgw) THEN [loss_dB |-> Lgw, mode |-> "GROUND"] ELSE Blocked)
     ELSE IF mode = "nvis"
     THEN (IF nres.mode # "BLOCKED" THEN nres ELSE Blocked)
     ELSE IF mode = "sky"
     THEN (IF sres.mode # "BLOCKED" THEN sres ELSE Blocked)
     ELSE IF nvis /\ f <= 70 /\ d <= 500000 /\ foF2 > 0 /\ nres.mode # "BLOCKED"
     THEN nres
     ELSE IF foF2 > 0 /\ sres.mode # "BLOCKED" THEN sres
     ELSE IF isFinite(Lgw) THEN [loss_dB |-> Lgw, mode |-> "GROUND"]
     ELSE Blocked

(***************************************************************************)
(* src/src/core/geometry.ts                                                *)
(***************************************************************************)
\* c / (max(f_MHz, 1e-6) * 1e6) = 299.792458 / f_MHz metres, in units of 1e-4 m
lambda_m(f10) == 29979246 \div Max(f10, 1)

\* sqrt(2 k Re h / 1000) km per antenna, in metres: sqrt(12742 * k100 * h_dm)
horizon_term(h_dm, k100) == Isqrt(12742 * k100 * h_dm)

horizon_km(h_t_dm, h_r_dm, k100) == horizon_term(h_t_dm, k100) + horizon_term(h_r_dm, k100)

(***************************************************************************)
(* src/unnamed/part_002  (vuhfModel.ts)                                    *)
(***************************************************************************)
\* 2^(2^-k) * 2^14, k = 1..12
Pow2Table == <<23170, 19484, 17867, 17109, 16743, 16562, 16473, 16428, 16406, 16395, 16390, 16387>>

RECURSIVE Pow2Frac(_, _, _)
\* 2^(fr / 4096) * 2^14, multiplying in the table entry of every set bit of fr
Pow2Frac(fr, k, m) ==
  IF k > 12 THEN m
  ELSE IF (fr \div 2^(12 - k)) % 2 = 1
       THEN Pow2Frac(fr, k + 1, (m * Pow2Table[k]) \div 16384)
       ELSE Pow2Frac(fr, k + 1, m)

\* 10^y in units of 1e-3, y >= 0 in units of 1e-4 (Math.pow through log10)
Exp10E3(y) ==
  LET zq == MulDiv(y, 13607, 10000)
  IN (Pow2Frac(zq % 4096, 1, 16384) * 1000 * 2^(zq \div 4096)) \div 16384

\* Math.pow(n / scale, p / 1000) in units of 1e-3, for n >= scale
PowE3(n, scale, p) == Exp10E3(MulDiv(Log10E4(n) - Log10E4(scale), p, 1000))

\* fspl_dB for a distance given in centimetres
fspl_cm_dB(d_cm, f10) ==
  3244 + (dB20(Max(d_cm, 1)) - 10000) + (dB20(Max(f10, 1)) - 2000)

\* the breakpoint taken at half its distance, 2 ht hr / lambda
twoSlope_breakpoint_cm_Half(f10, h_t_dm, h_r_dm) ==
  Max(MulDiv(2 * h_t_dm * h_r_dm, 10000, Max(lambda_m(f10), 1)), 100)

\* d_bp_m = max(4 ht hr / max(lambda, 1e-6), 1), in centimetres
twoSlope_breakpoint_cm(f10, h_t_dm, h_r_dm) ==
  Max(MulDiv(4 * h_t_dm * h_r_dm, 10000, Max(lambda_m(f10), 1)), 100)

\* twoSlope_dB: FSPL up to the breakpoint, 40 dB/decade beyond
twoSlope_dB(d_m_in, f10, h_t_dm, h_r_dm) ==
  LET d_m == Max(d_m_in, 1)
      d_bp_cm == twoSlope_breakpoint_cm(f10, h_t_dm, h_r_dm)
  IN IF 100 * d_m <= d_bp_cm THEN fspl_dB(d_m, f10)
     ELSE fspl_cm_dB(d_bp_cm, f10) + 2 * (dB20(100 * d_m) - dB20(d_bp_cm))

\* antenna height correction a(hr), in cdB
hata_a_hr(f10, hr_dm, env) ==
  LET Lf == Log10E4(f10) - 10000
      l == Log10E4(154 * hr_dm) - 30000
  IN IF f10 >= 3000 /\ f10 <= 15000 /\ env = "urban"
     THEN (829 * ((l * l) \div 10000)) \div 10000 - 110
     ELSE ((((11 * Lf) \div 10 - 7000) * hr_dm) \div 10
             - ((156 * Lf) \div 100 - 8000)) \div 100

\* Hata / COST-231 median loss in cdB; NaN outside 150..2000 MHz
hata_dB(d_m, f10, h_t_dm, h_r_dm, env) ==
  IF f10 < 1500 \/ f10 > 20000 THEN NaN
  ELSE LET ht == Min(Max(h_t_dm, 300), 2000)
           hr == Min(Max(h_r_dm, 10), 100)
           d == Min(Max(d_m, 1000), 20000)
           Lf == Log10E4(f10) - 10000
           Lht == Log10E4(ht) - 10000
           Ld == Log10E4(d) - 30000
           L == 6955 + (2616 * Lf) \div 10000 - (1382 * Lht) \div 10000
                  - hata_a_hr(f10, hr, env)
                  + ((4490 - (655 * Lht) \div 10000) * Ld) \div 10000
           C_m == IF env = "urban" THEN 300 ELSE 0
           rural == IF env \in {"open", "rural", "water", "mountain"}
                    THEN -((478 * ((Lf * Lf) \div 10000)) \div 10000
                             - (1833 * Lf) \div 10000 + 4094)
                    ELSE 0
       IN Fin(L + C_m + rural)

\* L0 + 10 n log10(d / d0), d0 = 0.1 km, n in tenths
logDistance_dB(d_m, f10, n10) ==
  fspl_dB(100, f10) + (n10 * (Log10E4(Max(d_m, 1)) - 20000)) \div 100

\* Weissberger foliage loss in cdB, depth in metres
foliage_dB(f10, depth_m) ==
  IF depth_m <= 0 THEN 0
  ELSE LET fpow == PowE3(Max(f10, 10), 10, 284)
       IN IF depth_m <= 14 THEN (45 * fpow * depth_m) \div 1000
          ELSE MulDiv(133 * fpow, PowE3(Min(depth_m, 400), 1, 588), 1000) \div 1000

\* path loss exponent n, in tenths
envToN(env) ==
  CASE env = "open" -> 21
    [] env = "rural" -> 24
    [] env = "urban" -> 35
    [] env = "forest" -> 38
    [] env = "water" -> 20
    [] env = "mountain" -> 26

\* Hata / COST-231 with the log-distance fallback on NaN
vuhf_median_dB(d_m, f10, h_t_dm, h_r_dm, environment) ==
  LET Lmed == hata_dB(d_m, f10, h_t_dm, h_r_dm, environment)
  IN IF isNaN(Lmed) THEN logDistance_dB(d_m, f10, envToN(environment)) ELSE Lmed.v

\* env.environment === 'forest' && env.foliageDepth_m && env.foliageDepth_m > 0
vuhf_foliage_dB(f10, env) ==
  IF env.environment = "forest" /\ env.hasFoliageDepth /\ env.foliageDepth_m > 0
  THEN foliage_dB(f10, env.foliageDepth_m) ELSE 0

\* one unit of the blend weight is 1 / BLEND_ONE
BLEND_ONE == 10000

\* the blend taken over +-10% of dH instead of +-5%
vuhf_blend_WideBand(d_m, dH_m) ==
  LET d20 == 20 * d_m
      dLo == 18 * dH_m
      dHi == 22 * dH_m
  IN IF d20 <= dLo THEN 0
     ELSE IF d20 >= dHi THEN BLEND_ONE
     ELSE ((d20 - dLo) * BLEND_ONE) \div Max(dHi - dLo, 1)

\* blend = d <= dLo ? 0 : d >= dHi ? 1 : (d - dLo) / max(dHi - dLo, 1e-6),
\* with dLo = 0.95 dH and dHi = 1.05 dH taken exactly (in twentieths of a metre)
vuhf_blend(d_m, dH_m) ==
  LET d20 == 20 * d_m
      dLo == 19 * dH_m
      dHi == 21 * dH_m
  IN IF d20 <= dLo THEN 0
     ELSE IF d20 >= dHi THEN BLEND_ONE
     ELSE ((d20 - dLo) * BLEND_ONE) \div Max(dHi - dLo, 1)

\* the median candidate used as it is, without the offset delta
vuhf_nlos_shifted_NoDelta(d_m, f10, h_t_dm, h_r_dm, env, dH_m) ==
  vuhf_median_dB(d_m, f10, h_t_dm, h_r_dm, env.environment) + vuhf_foliage_dB(f10, env)

\* L_nlos + delta: the median candidate shifted to meet L_los at dH
vuhf_nlos_shifted(d_m, f10, h_t_dm, h_r_dm, env, dH_m) ==
  LET Lmed == vuhf_median_dB(d_m, f10, h_t_dm, h_r_dm, env.environment)
      L_nlos == Lmed + vuhf_foliage_dB(f10, env)
      Llos_at_dH == twoSlope_dB(Max(dH_m, 1), f10, h_t_dm, h_r_dm)
      Lmed_at_dH == vuhf_median_dB(Max(dH_m, 1), f10, h_t_dm, h_r_dm, env.environment)
                      + vuhf_foliage_dB(f10, env)
      delta == Llos_at_dH - Lmed_at_dH
  IN L_nlos + delta

\* blend < 0.5 as the doubles decide it.  In exact arithmetic the quotient is
\* 0.5 at d = dH; dLo = dH * 0.95 and dHi = dH * 1.05 are rounded products, so
\* there the computed quotient is 0.5 or its neighbour on either side (ulp).
vuhf_blend_lt_half(d_m, dH_m, ulp) ==
  LET d20 == 20 * d_m
      dLo == 19 * dH_m
      dHi == 21 * dH_m
  IN IF d20 <= dLo THEN TRUE
     ELSE IF d20 >= dHi THEN FALSE
     ELSE 2 * (d20 - dLo) + ulp < Max(dHi - dLo, 1)

solveVuhf(tx, rx, env, ctx, ulp) ==
  LET f == tx.frequency_MHz
      d == Max(ctx.distance_km, 1)
      L_los == twoSlope_dB(d, f, tx.height_m, rx.height_m)
      dH == horizon_km(tx.height_m, rx.height_m, env.kFactor)
      L_nlos == vuhf_nlos_shifted(d, f, tx.height_m, rx.height_m, env, dH)
      blend == vuhf_blend(d, dH)
      L == ((BLEND_ONE - blend) * L_los + blend * L_nlos) \div BLEND_ONE
  IN [loss_dB |-> Fin(L),
      mode |-> IF vuhf_blend_lt_half(d, dH, ulp) THEN "LOS" ELSE "NLOS"]

(***************************************************************************)
(* src/src/core/linkBudget.ts  (link budget, predictPath, predictLink)     *)
(***************************************************************************)
\* Math.log10(x) * 10 in cdB for x = n / scale; log10(0) = -Infinity,
\* log10 of a negative number = NaN
Num10Log10(n, scale) ==
  IF n < 0 THEN NaN
  ELSE IF n = 0 THEN NegInf
  ELSE Fin(dB10(n) - dB10(scale))

\* the power taken in watts, without the factor 1000 to milliwatts
eirp_dBm_Watts(power_dW, txGain_dBi, txCable_dB) ==
  NumSub(NumAdd(Num10Log10(power_dW, 10), Fin(txGain_dBi)), Fin(txCable_dB))

\* 10 log10(power_W * 1000) + txGain_dBi - txCable_dB; power in tenths of a watt
eirp_dBm(power_dW, txGain_dBi, txCable_dB) ==
  NumSub(NumAdd(Num10Log10(power_dW * 100, 1), Fin(txGain_dBi)), Fin(txCable_dB))

\* -174 + 10 log10(max(bandwidth_Hz, 1)) + noiseFigure_dB
noiseFloor_dBm(bandwidth_Hz, noiseFigure_dB) ==
  -17400 + dB10(Max(bandwidth_Hz, 1)) + noiseFigure_dB

sensitivity_dBm(rx) ==
  noiseFloor_dBm(rx.bandwidth_Hz, rx.noiseFigure_dB) + rx.requiredSNR_dB

\* received power with the path loss clamped to 300 dB
receivedPower_dBm_ClampedLoss(EIRP_dBm, rxGain_dBi, rxCable_dB, pathLoss_dB) ==
  LET clamped == IF isFinite(pathLoss_dB) THEN Fin(Min(pathLoss_dB.v, 30000))
                 ELSE pathLoss_dB
  IN NumSub(NumSub(NumAdd(EIRP_dBm, Fin(rxGain_dBi)), clamped), Fin(rxCable_dB))

\* EIRP + Gr - (Lpath + Lmisc) - Lcable, miscLoss_dB = 0
receivedPower_dBm(EIRP_dBm, rxGain_dBi, rxCable_dB, pathLoss_dB) ==
  NumSub(NumSub(NumAdd(EIRP_dBm, Fin(rxGain_dBi)), NumAdd(pathLoss_dB, Fin(0))),
         Fin(rxCable_dB))

\* predictPath sending 30 MHz itself to the HF solver
predictPath_InclusiveLimit(tx, rx, env, ctx, ulp, hfBuild) ==
  IF tx.frequency_MHz <= 300
  THEN (IF hfBuild = "v15" THEN solveHF(tx, rx, env, ctx, ulp)
        ELSE solveHF_p3(tx, rx, env, ctx))
  ELSE solveVuhf(tx, rx, env, ctx, ulp)

\* predictPath: HF below 30 MHz, V/UHF from 30 MHz up.  hfBuild names which
\* of the two hfModel.ts sources is linked in.
predictPath(tx, rx, env, ctx, ulp, hfBuild) ==
  IF tx.frequency_MHz < 300
  THEN (IF hfBuild = "v15" THEN solveHF(tx, rx, env, ctx, ulp)
        ELSE solveHF_p3(tx, rx, env, ctx))
  ELSE solveVuhf(tx, rx, env, ctx, ulp)

\* predictLink falling back to the HF context of the previous call when its
\* own ctx.hf is absent (a module-level "last context")
predictLink_StaleHF(tx, rx, env, ctx, ulp, hfBuild) ==
  LET c == IF ~ctx.hf.present /\ history # <<>>
           THEN [ctx EXCEPT !.hf = history[Len(history)].args[5].hf]
           ELSE ctx
      path == predictPath(tx, rx, env, c, ulp, hfBuild)
      EIRP == eirp_dBm(tx.power_W, tx.gain_dBi, tx.cable_dB)
      pr == receivedPower_dBm(EIRP, rx.gain_dBi, rx.cable_dB, path.loss_dB)
      sens == sensitivity_dBm(rx)
  IN [pr_dBm |-> pr, sensitivity_dBm |-> Fin(sens),
      margin_dB |-> NumSub(pr, Fin(sens)), mode |-> path.mode]

predictLink(tx, rx, env, ctx, ulp, hfBuild) ==
  LET path == predictPath(tx, rx, env, ctx, ulp, hfBuild)
      EIRP == eirp_dBm(tx.power_W, tx.gain_dBi, tx.cable_dB)
      pr == receivedPower_dBm(EIRP, rx.gain_dBi, rx.cable_dB, path.loss_dB)
      sens == sensitivity_dBm(rx)
  IN [pr_dBm |-> pr, sensitivity_dBm |-> Fin(sens),
      margin_dB |-> NumSub(pr, Fin(sens)), mode |-> path.mode]

(***************************************************************************)
(* State: one call of an engine entry point.  pc = "call": the arguments   *)
(* are set; pc = "done": the call has returned its result.                 *)
(***************************************************************************)
VARIABLES pc, op, tx, rx, env, ctx, ulp, hfBuild, path, link

\* The coverage worker (part_001) and the map view (MapView.tsx) around the
\* engine: view is the map viewport, canvasSize the size of the canvas,
\* inbox the requests posted to the worker and not yet handled, outbox the
\* responses posted by the worker and not yet delivered, canvas the cells
\* painted; posted and answered list every request and response so far.
VARIABLES view, canvasSize, inbox, outbox, canvas, posted, answered

cvars == <<view, canvasSize, inbox, outbox, canvas, posted, answered>>

vars == <<pc, op, tx, rx, env, ctx, ulp, hfBuild, path, link, history,
          view, canvasSize, inbox, outbox, canvas, posted, answered>>

args == <<op, tx, rx, env, ctx, ulp, hfBuild>>

NoPath == [loss_dB |-> NaN, mode |-> "none"]

NoLink == [pr_dBm |-> NaN, sensitivity_dBm |-> NaN, margin_dB |-> NaN, mode |-> "none"]

(***************************************************************************)
(* Bounds of the input grids                                               *)
(***************************************************************************)
\* HF distances: multiples of DistStepHF up to MaxHFSteps steps, and 1 m beyond each
MaxHFSteps == 5

DistStepHF == 100000

\* V/UHF distances: twentieths of the radio horizon from MinTwentieths up to
\* MaxTwentieths, each with its two neighbours at 1 m
MaxTwentieths == 23

MinTwentieths == 17

HFGrid == {k * DistStepHF + j : k \in 0..MaxHFSteps, j \in {0, 1}}

\* the edges of the regimes' domains (50 km, the skip distance) and far paths
DistHF == HFGrid \cup {-5000, 50000, 50001, 105795, 105796, 1000000, 3000000}

FreqHF == {1, 35, 70, 71, 100, 101, 299}

FoF2Set == {0, 10, 60, 80}

PropagationModes == {"undefined", "auto", "ground", "sky", "nvis"}

NoHF == [present |-> FALSE, foF2_MHz |-> 0, NVIS_enabled |-> FALSE,
         propagationMode |-> "undefined"]

HFContexts ==
  {NoHF} \cup [present : {TRUE}, foF2_MHz : FoF2Set, NVIS_enabled : BOOLEAN,
               propagationMode : PropagationModes]

GroundClasses == {"sea", "wet", "dry"}

EnvironmentClasses == {"open", "rural", "urban", "forest", "water", "mountain"}

\* 10 W, +5 dBi, 1 dB cable
TxOf(f, h) ==
  [power_W |-> 100, gain_dBi |-> 500, cable_dB |-> 100, height_m |-> h,
   frequency_MHz |-> f]

\* 0 dBi, 0 dB cable, 1.5 m, 20 kHz, NF 5 dB, SNR 10 dB
RxDefault ==
  [gain_dBi |-> 0, cable_dB |-> 0, height_m |-> 15, bandwidth_Hz |-> 20000,
   noiseFigure_dB |-> 500, requiredSNR_dB |-> 1000]

EnvOf(e, k, g, has, depth) ==
  [environment |-> e, kFactor |-> k, groundClass |-> g, hasFoliageDepth |-> has,
   foliageDepth_m |-> depth]

CtxOf(d, hf) == [distance_km |-> d, hf |-> hf]

\* arguments of a direct call of solveHF (either source variant)
InitHF ==
  /\ op \in {"solveHF", "solveHF_p3"}
  /\ tx \in {TxOf(f, 300) : f \in FreqHF}
  /\ rx = RxDefault
  /\ env \in {EnvOf("urban", 133, g, FALSE, 0) : g \in GroundClasses}
  /\ ctx \in {CtxOf(d, hf) : d \in DistHF, hf \in HFContexts}
  /\ ulp \in IF op = "solveHF" THEN {-1, 0, 1} ELSE {0}
  /\ hfBuild = IF op = "solveHF" THEN "v15" ELSE "p3"

VuhfHeights == {<<300, 15>>, <<50, 50>>, <<1000, 100>>, <<0, 0>>}

\* distances around the radio horizon dH of the chosen antennas
DistVuhf(dH) ==
  {(dH * i) \div 20 + j : i \in MinTwentieths..MaxTwentieths, j \in {-1, 0, 1}}
    \cup {-1000, 0, 1, 50, 5000}

\* the last metre below and the first metre beyond the two-slope breakpoint
DistBreakpoint(f10, h_t_dm, h_r_dm) ==
  {twoSlope_breakpoint_cm(f10, h_t_dm, h_r_dm) \div 100 + j : j \in {0, 1}}

VuhfEnvs ==
  {EnvOf(e, k, "wet", FALSE, 0) : e \in EnvironmentClasses, k \in {100, 133}}
    \cup {EnvOf("forest", 133, "wet", TRUE, depth) : depth \in {0, 10, 30}}

\* arguments of a direct call of solveVuhf
InitVuhf ==
  /\ op = "solveVuhf"
  /\ \E f \in {300, 1460, 4330, 24000}, h \in VuhfHeights :
       /\ tx = TxOf(f, h[1])
       /\ rx = [RxDefault EXCEPT !.height_m = h[2]]
  /\ env \in VuhfEnvs
  /\ ctx \in {CtxOf(d, NoHF) :
                d \in DistVuhf(horizon_km(tx.height_m, rx.height_m, env.kFactor))
                       \cup DistBreakpoint(tx.frequency_MHz, tx.height_m, rx.height_m)}
  /\ ulp \in {-1, 0, 1}
  /\ hfBuild = "v15"

LinkHFContexts ==
  {NoHF,
   [present |-> TRUE, foF2_MHz |-> 60, NVIS_enabled |-> FALSE, propagationMode |-> "auto"],
   [present |-> TRUE, foF2_MHz |-> 80, NVIS_enabled |-> TRUE, propagationMode |-> "auto"],
   [present |-> TRUE, foF2_MHz |-> 80, NVIS_enabled |-> FALSE, propagationMode |-> "auto"]}

\* arguments of a call of predictLink
InitLink ==
  /\ op = "predictLink"
  /\ tx \in {[TxOf(f, 300) EXCEPT !.power_W = p] :
               f \in {35, 71, 299, 300, 301, 1460}, p \in {0, 1, 100}}
  /\ rx \in {[RxDefault EXCEPT !.bandwidth_Hz = b, !.gain_dBi = g] :
               b \in {0, 20000}, g \in {0, 300}}
  /\ env = EnvOf("urban", 133, "wet", FALSE, 0)
  /\ ctx \in {CtxOf(d, hf) : d \in {-1000, 0, 5000, 100000, 1000000},
                              hf \in LinkHFContexts}
  /\ ulp \in {-1, 0, 1}
  /\ hfBuild \in {"v15", "p3"}

\* before the call returns there is no result
\* the map view before its first request: default viewport, blank canvas
CoverageIdle ==
  /\ view = [off |-> 0, perPx |-> 2000]
  /\ canvasSize = [width |-> 16, height |-> 8]
  /\ inbox = <<>> /\ outbox = <<>> /\ canvas = {}
  /\ posted = <<>> /\ answered = <<>>

NoResult ==
  /\ pc = "call" /\ path = NoPath /\ link = NoLink /\ history = <<>>
  /\ CoverageIdle

Init == NoResult /\ (InitHF \/ InitVuhf \/ InitLink)

\* the entry of history for a call that has returned
Returned(a, p, l) == [args |-> a, path |-> p, link |-> l]

CallSolveHF ==
  /\ pc = "call" /\ op = "solveHF"
  /\ path' = solveHF(tx, rx, env, ctx, ulp)
  /\ pc' = "done"
  /\ history' = Append(history, Returned(args, path', link))
  /\ UNCHANGED <<args, link>>
  /\ UNCHANGED cvars

CallSolveHF_p3 ==
  /\ pc = "call" /\ op = "solveHF_p3"
  /\ path' = solveHF_p3(tx, rx, env, ctx)
  /\ pc' = "done"
  /\ history' = Append(history, Returned(args, path', link))
  /\ UNCHANGED <<args, link>>
  /\ UNCHANGED cvars

CallSolveVuhf ==
  /\ pc = "call" /\ op = "solveVuhf"
  /\ path' = solveVuhf(tx, rx, env, ctx, ulp)
  /\ pc' = "done"
  /\ history' = Append(history, Returned(args, path', link))
  /\ UNCHANGED <<args, link>>
  /\ UNCHANGED cvars

CallPredictLink ==
  /\ pc = "call" /\ op = "predictLink"
  /\ path' = predictPath(tx, rx, env, ctx, ulp, hfBuild)
  /\ link' = predictLink(tx, rx, env, ctx, ulp, hfBuild)
  /\ pc' = "done"
  /\ history' = Append(history, Returned(args, path', link'))
  /\ UNCHANGED args
  /\ UNCHANGED cvars

Next == CallSolveHF \/ CallSolveHF_p3 \/ CallSolveVuhf \/ CallPredictLink

Spec == Init /\ [][Next]_vars

\* the HF solver alone
NextHF == CallSolveHF \/ CallSolveHF_p3

InitSolveHF == NoResult /\ InitHF

SpecHF == InitSolveHF /\ [][NextHF]_vars

\* the V/UHF solver alone
NextVuhf == CallSolveVuhf

InitSolveVuhf == NoResult /\ InitVuhf

SpecVuhf == InitSolveVuhf /\ [][NextVuhf]_vars

\* the dispatcher and the link budget
NextLink == CallPredictLink

InitPredictLink == NoResult /\ InitLink

SpecLink == InitPredictLink /\ [][NextLink]_vars

(***************************************************************************)
(* A session: several calls one after another                              *)
(***************************************************************************)
\* number of calls of a session
MaxCalls == 3

\* the calls a session chooses from: <<op, tx, rx, env, ctx>>
SessionCalls ==
  LET urban == EnvOf("urban", 133, "wet", FALSE, 0)
      hf80 == [present |-> TRUE, foF2_MHz |-> 80, NVIS_enabled |-> FALSE,
               propagationMode |-> "auto"]
  IN {<<"predictLink", TxOf(71, 300), RxDefault, urban, CtxOf(1000000, NoHF)>>,
      <<"predictLink", TxOf(71, 300), RxDefault, urban, CtxOf(1000000, hf80)>>,
      <<"predictLink", TxOf(1460, 300), RxDefault, urban, CtxOf(5000, NoHF)>>,
      <<"solveHF", TxOf(35, 300), RxDefault, urban, CtxOf(200000, hf80)>>,
      <<"solveHF_p3", TxOf(35, 300), RxDefault, urban, CtxOf(200000, hf80)>>,
      <<"solveVuhf", TxOf(4330, 300), RxDefault, urban, CtxOf(30000, NoHF)>>}

\* the first call of a session; the build and its rounding stay the same
\* for the whole session
InitSession ==
  /\ NoResult
  /\ \E c \in SessionCalls :
       op = c[1] /\ tx = c[2] /\ rx = c[3] /\ env = c[4] /\ ctx = c[5]
  /\ ulp \in {-1, 0, 1}
  /\ hfBuild \in {"v15", "p3"}

\* the caller makes its next call
NewCall ==
  /\ pc = "done" /\ Len(history) < MaxCalls
  /\ \E c \in SessionCalls :
       op' = c[1] /\ tx' = c[2] /\ rx' = c[3] /\ env' = c[4] /\ ctx' = c[5]
  /\ pc' = "call" /\ path' = NoPath /\ link' = NoLink
  /\ UNCHANGED <<ulp, hfBuild, history>>
  /\ UNCHANGED cvars

NextSession ==
  CallSolveHF \/ CallSolveHF_p3 \/ CallSolveVuhf \/ CallPredictLink \/ NewCall

SpecSession == InitSession /\ [][NextSession]_vars

(***************************************************************************)
(* src/unnamed/part_001 (coverageWorker.ts, App.tsx) and                   *)
(* src/src/ui/MapView.tsx: the page posts coverage requests to the worker, *)
(* the worker evaluates predictLink on a grid and posts one response, the  *)
(* page paints the response on the canvas.  Every handler runs to its end  *)
(* before the next message is delivered.                                   *)
(***************************************************************************)

MaxRequests == 4

PX_STEP == 8

MARGIN_MIN_DB == -1000

MARGIN_MAX_DB == 3000

POWER_CUTOFF_DBM == -11000

\* the state of App when the page is mounted
AppTx == TxOf(1460, 300)

AppRx == RxDefault

AppEnv == EnvOf("urban", 133, "wet", FALSE, 0)

AppHf ==
  [present |-> TRUE, foF2_MHz |-> 100, NVIS_enabled |-> FALSE,
   propagationMode |-> "auto"]

\* what the control panel can make of tx, rx and hf: the fields are any
\* numbers the user types
PanelScenes ==
  {[tx |-> AppTx, rx |-> AppRx, hf |-> AppHf],
   [tx |-> [AppTx EXCEPT !.power_W = 0], rx |-> AppRx, hf |-> AppHf],
   [tx |-> [AppTx EXCEPT !.power_W = -10], rx |-> AppRx, hf |-> AppHf],
   [tx |-> AppTx, rx |-> [AppRx EXCEPT !.requiredSNR_dB = 4000], hf |-> AppHf],
   [tx |-> [AppTx EXCEPT !.frequency_MHz = 71], rx |-> AppRx,
    hf |-> [AppHf EXCEPT !.foF2_MHz = 80]]}

\* bounds and zoom of the map, as seen from the transmitter: the transmitter
\* is off pixels west of the north-west corner of the canvas and one pixel
\* is perPx metres
Viewports == {[off |-> 0, perPx |-> 2000], [off |-> 8, perPx |-> 3500]}

\* sizes the ResizeObserver gives the canvas
CanvasSizes == {[width |-> 16, height |-> 8], [width |-> 12, height |-> 16]}

\* the request built by requestCoverage from the props and the canvas
CoverageRequest(v, size, t, r, e, hf) ==
  [view |-> v, width |-> size.width, height |-> size.height,
   pxStep |-> PX_STEP, tx |-> t, rx |-> r, env |-> e, ctxBase |-> hf]

\* a queue that hands over the newest message first
Deliver_NewestFirst(queue) ==
  [data |-> queue[Len(queue)], rest |-> SubSeq(queue, 1, Len(queue) - 1)]


\* delivery of the oldest message of a queue of posted messages
Deliver(queue) == [data |-> Head(queue), rest |-> Tail(queue)]

\* distance in metres from the transmitter to the sample at (px, py)
SampleDistance(req, px, py) ==
  LET dx == req.view.off + px
  IN Isqrt(dx * dx + py * py) * req.view.perPx

\* a worker that reports the values of the engine as they are
FiniteOrNegInf_Keep(v) == v


\* Number.isFinite(v) ? v : -Infinity
FiniteOrNegInf(v) == IF isFinite(v) THEN v ELSE NegInf

\* the cell pushed for a sample, given the result of predictLink
CoverageCell(px, py, l) ==
  [x |-> px, y |-> py, margin_dB |-> FiniteOrNegInf(l.margin_dB),
   pr_dBm |-> FiniteOrNegInf(l.pr_dBm), mode |-> l.mode]

\* the body of the inner try for the sample at (px, py)
EvaluateSample(req, px, py, u, build) ==
  CoverageCell(px, py,
               predictLink(req.tx, req.rx, req.env,
                           CtxOf(Max(SampleDistance(req, px, py), 1), req.ctxBase),
                           u, build))

\* a worker whose scan ends at the first sample that throws
RECURSIVE ScanFrom_AbortOnThrow(_, _, _, _, _, _)
ScanFrom_AbortOnThrow(req, px, py, thrown, u, build) ==
  IF py >= req.height THEN <<>>
  ELSE IF px >= req.width
       THEN ScanFrom_AbortOnThrow(req, 0, py + req.pxStep, thrown, u, build)
  ELSE IF <<px, py>> \in thrown THEN <<>>
  ELSE <<EvaluateSample(req, px, py, u, build)>>
       \o ScanFrom_AbortOnThrow(req, px + req.pxStep, py, thrown, u, build)


\* the two for loops of the worker from (px, py) on; thrown holds the
\* samples whose evaluation throws, which the inner catch skips
RECURSIVE ScanFrom(_, _, _, _, _, _)
ScanFrom(req, px, py, thrown, u, build) ==
  IF py >= req.height THEN <<>>
  ELSE IF px >= req.width THEN ScanFrom(req, 0, py + req.pxStep, thrown, u, build)
  ELSE (IF <<px, py>> \in thrown THEN <<>>
        ELSE <<EvaluateSample(req, px, py, u, build)>>)
       \o ScanFrom(req, px + req.pxStep, py, thrown, u, build)

\* the response the worker posts for a request
CoverageResponse(req, thrown, u, build) ==
  [cells |-> ScanFrom(req, 0, 0, thrown, u, build), width |-> req.width,
   height |-> req.height, pxStep |-> req.pxStep]

\* c.pr_dBm < POWER_CUTOFF_DBM; false for NaN
BelowCutoff(pr) == pr.k = "ninf" \/ (pr.k = "fin" /\ pr.v < POWER_CUTOFF_DBM)

\* t of onMsg in thousandths: the margin is clamped to the window before it
\* is scaled, which gives the same t and keeps the product small
ColourIndex(m) ==
  CASE m.k = "nan" -> NaN
    [] m.k = "ninf" -> Fin(0)
    [] m.k = "pinf" -> Fin(1000)
    [] OTHER -> Fin(((Max(MARGIN_MIN_DB, Min(MARGIN_MAX_DB, m.v)) - MARGIN_MIN_DB) * 1000)
                    \div (MARGIN_MAX_DB - MARGIN_MIN_DB))

\* ctx.fillRect(c.x, c.y, pxStep, pxStep) on a canvas of the given size: a
\* square that starts outside the canvas leaves no mark
FillRect(cv, size, c, t) ==
  IF c.x < size.width /\ c.y < size.height
  THEN {q \in cv : ~(q.x = c.x /\ q.y = c.y)} \cup {[x |-> c.x, y |-> c.y, t |-> t]}
  ELSE cv

\* the loop of onMsg over the cells from the i-th on
RECURSIVE PaintCells(_, _, _, _)
PaintCells(cv, size, cells, i) ==
  IF i > Len(cells) THEN cv
  ELSE IF BelowCutoff(cells[i].pr_dBm) THEN PaintCells(cv, size, cells, i + 1)
  ELSE PaintCells(FillRect(cv, size, cells[i], ColourIndex(cells[i].margin_dB)),
                  size, cells, i + 1)

\* ctx.clearRect(0, 0, width, height)
ClearRect(cv, width, height) == {q \in cv : ~(q.x < width /\ q.y < height)}

\* the canvas after onMsg has handled a response
Repaint(cv, size, data) ==
  PaintCells(ClearRect(cv, data.width, data.height), size, data.cells, 1)

\* the page after it is mounted: the resize effect and the recompute effect
\* have each posted a request for the initial props; the engine is called by
\* the worker only
InitCoverage ==
  /\ pc = "call" /\ op = "coverage" /\ path = NoPath /\ link = NoLink
  /\ history = <<>>
  /\ tx = AppTx /\ rx = AppRx /\ env = AppEnv /\ ctx = CtxOf(1, AppHf)
  /\ ulp = 0 /\ hfBuild \in {"v15", "p3"}
  /\ view = [off |-> 0, perPx |-> 2000]
  /\ canvasSize = [width |-> 16, height |-> 8]
  /\ LET first == CoverageRequest(view, canvasSize, tx, rx, env, ctx.hf)
     IN inbox = <<first, first>> /\ posted = <<first, first>>
  /\ outbox = <<>> /\ canvas = {} /\ answered = <<>>

\* what no handler of the page or the worker changes
engine == <<pc, op, ulp, hfBuild, path, link, history>>

\* the user changes a parameter or else moves the map: requestCoverage changes,
\* the resize effect and the recompute effect run again and each posts a
\* request
ChangeProps ==
  /\ Len(posted) + 2 <= MaxRequests
  /\ \E s \in PanelScenes, v \in Viewports :
       /\ (<<s.tx, s.rx, s.hf>> = <<tx, rx, ctx.hf>>) # (v = view)
       /\ tx' = s.tx /\ rx' = s.rx /\ ctx' = CtxOf(1, s.hf) /\ view' = v
       /\ LET req == CoverageRequest(v, canvasSize, s.tx, s.rx, env, s.hf)
          IN /\ inbox' = inbox \o <<req, req>>
             /\ posted' = posted \o <<req, req>>
  /\ UNCHANGED <<engine, env, canvasSize, outbox, canvas, answered>>

\* the ResizeObserver callback: setting the size of the canvas clears it
Resize ==
  /\ Len(posted) + 1 <= MaxRequests
  /\ \E size \in CanvasSizes \ {canvasSize} :
       /\ canvasSize' = size
       /\ canvas' = {}
       /\ LET req == CoverageRequest(view, size, tx, rx, env, ctx.hf)
          IN /\ inbox' = Append(inbox, req)
             /\ posted' = Append(posted, req)
  /\ UNCHANGED <<engine, tx, rx, env, ctx, view, outbox, answered>>

\* self.postMessage(data), noted in the list of answered requests
PostResponse(req, thrown, data) ==
  /\ outbox' = Append(outbox, data)
  /\ answered' = Append(answered, [request |-> req, thrown |-> thrown,
                                   response |-> data])

\* self.onmessage of the worker
WorkerOnMessage ==
  /\ inbox # <<>>
  /\ inbox' = Deliver(inbox).rest
  /\ \E thrown \in {{}, {<<PX_STEP, 0>>}} :
       PostResponse(Deliver(inbox).data, thrown,
                    CoverageResponse(Deliver(inbox).data, thrown, ulp, hfBuild))
  /\ UNCHANGED <<engine, tx, rx, env, ctx, view, canvasSize, canvas, posted>>

\* onMsg of the page
OnMsg ==
  /\ outbox # <<>>
  /\ LET e == Deliver(outbox)
     IN /\ outbox' = e.rest
        /\ canvas' = Repaint(canvas, canvasSize, e.data)
  /\ UNCHANGED <<engine, tx, rx, env, ctx, view, canvasSize, inbox, posted, answered>>

NextCoverage == ChangeProps \/ Resize \/ WorkerOnMessage \/ OnMsg

SpecCoverage == InitCoverage /\ [][NextCoverage]_vars

(***************************************************************************)
(* Claims about the HF solver (checked under SpecHF)                       *)
(***************************************************************************)
HFDone == pc = "done" /\ op \in {"solveHF", "solveHF_p3"}

\* the distance the solver works with: Math.max(ctx.distance_km, 0.001)
DistOf == Max(ctx.distance_km, 1)

\* the three regimes of the call's own source variant, evaluated on their own
NvisRegime ==
  IF op = "solveHF_p3"
  THEN nvis_loss_dB_p3(DistOf, tx.frequency_MHz, hf_foF2(ctx), tx.height_m)
  ELSE nvis_loss_dB(DistOf, tx.frequency_MHz, hf_foF2(ctx))

SkyRegime ==
  IF op = "solveHF_p3"
  THEN skywave_loss_dB_p3(DistOf, tx.frequency_MHz, hf_foF2(ctx), tx.height_m)
  ELSE skywave_loss_dB(DistOf, tx.frequency_MHz, hf_foF2(ctx), ulp)

GroundRegime ==
  IF op = "solveHF_p3"
  THEN groundwave_loss_dB_p3(DistOf, tx.frequency_MHz, env.groundClass,
                             tx.height_m, rx.height_m)
  ELSE groundwave_loss_dB(DistOf, tx.frequency_MHz, env.groundClass)

\* NVIS takes part in the automatic choice only when it is enabled
NvisApplicable == hf_nvis(ctx) /\ NvisRegime.mode # "BLOCKED"

SkyApplicable == SkyRegime.mode # "BLOCKED"

GroundApplicable == isFinite(GroundRegime)

AutoMode == hf_mode(ctx) \in {"auto", "undefined"}

\* C1: in auto mode (propagationMode 'auto' or absent) solveHF returns the
\* first applicable regime in the order NVIS, sky-wave, ground-wave, with that
\* regime's loss; it returns BLOCKED only when none of the three is
\* applicable, and never a lower-priority mode while a higher one applies.
C1_AutoPriority ==
  (HFDone /\ AutoMode) =>
    /\ NvisApplicable => path = NvisRegime
    /\ (~NvisApplicable /\ SkyApplicable) => path = SkyRegime
    /\ (~NvisApplicable /\ ~SkyApplicable /\ GroundApplicable)
         => path = [loss_dB |-> GroundRegime, mode |-> "GROUND"]
    /\ path.mode = "BLOCKED"
         <=> (~NvisApplicable /\ ~SkyApplicable /\ ~GroundApplicable)

\* an auto-mode call where all three regimes apply and NVIS is returned
C1_Witness ==
  /\ HFDone /\ AutoMode /\ op = "solveHF"
  /\ NvisApplicable /\ SkyApplicable /\ GroundApplicable
  /\ path.mode = "NVIS"

\* C3 (as stated): with NVIS disabled, the sky-wave MUF gate of hfModel.ts
\* uses the fixed 30 degree takeoff angle, so whenever f > foF2 * sec(30 deg)
\* (sec(30 deg) = 1.1547) the sky-wave regime is BLOCKED at every distance
\* and solveHF never returns IONO.
C3_FixedTakeoffMufGate ==
  (pc = "done" /\ op = "solveHF" /\ ~hf_nvis(ctx)
     /\ tx.frequency_MHz * 10000 > hf_foF2(ctx) * 11547)
    => path.mode # "IONO"

\* the hop count N = ceil(d / hop ground range) of the call's sky-wave geometry
HopCount ==
  IF op = "solveHF_p3"
  THEN skywave_hops_p3(DistOf, tx.frequency_MHz, tx.height_m)
  ELSE skywave_hops(DistOf, takeoff_angle_rad_from_range(DistOf, H_F2_KM), ulp)

\* the MUF gate of the call's sky-wave regime passes
MufGatePasses ==
  IF op = "solveHF_p3"
  THEN tx.frequency_MHz * 100
         <= muf_MHz_p3(hf_foF2(ctx), takeoff_angle_deg_p3(tx.height_m, tx.frequency_MHz))
  ELSE tx.frequency_MHz * 1000
         <= muf_secant_MHz(hf_foF2(ctx), takeoff_angle_rad_from_range(DistOf, H_F2_KM))

\* C4: whenever the sky-wave hop count exceeds 2 the sky-wave regime is
\* BLOCKED, whether or not the MUF gate passes, and solveHF does not return
\* mode IONO.
C4_HopCap ==
  (HFDone /\ HopCount > 2) => (SkyRegime.mode = "BLOCKED" /\ path.mode # "IONO")

\* a sky-wave-only call that needs three hops, passes the MUF gate and is BLOCKED
C4_Witness ==
  /\ HFDone /\ hf_mode(ctx) = "sky"
  /\ HopCount > 2 /\ MufGatePasses /\ hf_foF2(ctx) > 0 /\ DistOf > 50000
  /\ path = Blocked

\* C5 (as stated): an explicit override restricts solveHF of hfModel.ts to
\* that regime: 'ground' gives GROUND or BLOCKED, 'sky' gives IONO or BLOCKED,
\* 'nvis' gives NVIS or BLOCKED.
C5_OverrideRestricts ==
  (pc = "done" /\ op = "solveHF") =>
    /\ hf_mode(ctx) = "ground" => path.mode \in {"GROUND", "BLOCKED"}
    /\ hf_mode(ctx) = "sky" => path.mode \in {"IONO", "BLOCKED"}
    /\ hf_mode(ctx) = "nvis" => path.mode \in {"NVIS", "BLOCKED"}

\* C9: solveHF of hfModel.ts returns one of GROUND, IONO, NVIS, BLOCKED; a
\* BLOCKED result carries the loss 1e6 dB exactly and every other result a
\* finite loss (the ground-wave helper's +Infinity never leaves the solver).
C9_FiniteLoss ==
  (pc = "done" /\ op = "solveHF") =>
    /\ path.mode \in {"GROUND", "IONO", "NVIS", "BLOCKED"}
    /\ path.mode = "BLOCKED" => path.loss_dB = Fin(BLOCKED_LOSS)
    /\ path.mode # "BLOCKED" => isFinite(path.loss_dB)

\* a ground-wave-only call outside the ground-wave domain: the helper gives
\* +Infinity and the solver returns BLOCKED with 1e6 dB
C9_Witness ==
  /\ pc = "done" /\ op = "solveHF" /\ hf_mode(ctx) = "ground"
  /\ GroundRegime = PosInf
  /\ path = Blocked

(***************************************************************************)
(* Claims about the V/UHF solver (checked under SpecVuhf)                  *)
(***************************************************************************)
VuhfDone == pc = "done" /\ op = "solveVuhf"

\* the radio horizon dH of the call
Horizon == horizon_km(tx.height_m, rx.height_m, env.kFactor)

\* L_LOS(d): the two-slope candidate of the call at distance d
LosAt(d) == twoSlope_dB(Max(d, 1), tx.frequency_MHz, tx.height_m, rx.height_m)

\* L_NLOS(d): the median candidate of the call with its foliage adder
NlosAt(d) ==
  vuhf_median_dB(Max(d, 1), tx.frequency_MHz, tx.height_m, rx.height_m, env.environment)
    + vuhf_foliage_dB(tx.frequency_MHz, env)

\* the loss solveVuhf returns for the same call at distance d
LossAt(d) == solveVuhf(tx, rx, env, [ctx EXCEPT !.distance_km = d], ulp).loss_dB.v

\* the distance of the call lies within 0.9 dH .. 1.1 dH
AroundBlendBand == 20 * DistOf >= 18 * Horizon /\ 20 * DistOf <= 22 * Horizon

\* C6: for f >= 30 MHz and dH > 0 the NLOS candidate shifted by
\* Delta = L_LOS(dH) - L_NLOS(dH) equals the LOS candidate at d = dH, the
\* loss returned at d = dH is L_LOS(dH), and the loss has no jump (no change
\* of 0.5 dB or more between distances one metre apart) at dH, at 0.95 dH
\* or at 1.05 dH, nor anywhere from 0.9 dH to 1.1 dH.
C6_SeamlessHandover ==
  (VuhfDone /\ Horizon > 0) =>
    /\ vuhf_nlos_shifted(Horizon, tx.frequency_MHz, tx.height_m, rx.height_m,
                         env, Horizon) = LosAt(Horizon)
    /\ DistOf = Horizon => path.loss_dB = Fin(LosAt(Horizon))
    /\ AroundBlendBand =>
         /\ Abs(LossAt(DistOf + 1) - path.loss_dB.v) < 50
         /\ Abs(LossAt(DistOf - 1) - path.loss_dB.v) < 50

\* a call exactly at the horizon whose two candidates differ there before the shift
C6_Witness ==
  /\ VuhfDone /\ Horizon > 0 /\ DistOf = Horizon
  /\ Abs(NlosAt(Horizon) - LosAt(Horizon)) > 50
  /\ Abs(LossAt(DistOf + 1) - path.loss_dB.v) < 50
  /\ path.loss_dB = Fin(LosAt(Horizon))

\* b = clamp((d - 0.95 dH) / (0.10 dH), 0, 1) in units of 1 / BLEND_ONE
ClampedWeight ==
  (Max(0, Min(20 * DistOf - 19 * Horizon, 2 * Horizon)) * BLEND_ONE) \div (2 * Horizon)

\* the weight and the loss of the call are the documented ones
C7_WeightAndLoss ==
  LET b == ClampedWeight
      shifted == NlosAt(DistOf) + (LosAt(Horizon) - NlosAt(Horizon))
  IN /\ vuhf_blend(DistOf, Horizon) = b
     /\ 20 * DistOf <= 19 * Horizon => b = 0
     /\ 20 * DistOf >= 21 * Horizon => b = BLEND_ONE
     /\ path.loss_dB = Fin(((BLEND_ONE - b) * LosAt(DistOf) + b * shifted) \div BLEND_ONE)

\* C7 (as stated): for dH > 0 the blend weight is
\* clamp((d - 0.95 dH) / (0.10 dH), 0, 1), the loss is
\* (1 - b) L_LOS + b (L_NLOS + Delta), and the mode is LOS exactly when
\* d < dH and NLOS exactly when d >= dH.
C7_ModeExactlyAtHorizon ==
  (VuhfDone /\ Horizon > 0) =>
    /\ C7_WeightAndLoss
    /\ path.mode = "LOS" <=> DistOf < Horizon
    /\ path.mode = "NLOS" <=> DistOf >= Horizon

\* C7 (amended): for dH > 0 the blend weight is
\* clamp((d - 0.95 dH) / (0.10 dH), 0, 1), the loss is
\* (1 - b) L_LOS + b (L_NLOS + Delta), and the mode is LOS when d < dH
\* (b < 0.5) and NLOS when d > dH (b > 0.5); at d = dH, where b is 0.5 up to
\* rounding, the mode is LOS or NLOS.
C7_BlendAndMode ==
  (VuhfDone /\ Horizon > 0) =>
    /\ C7_WeightAndLoss
    /\ path.mode \in {"LOS", "NLOS"}
    /\ (DistOf < Horizon \/ 2 * ClampedWeight < BLEND_ONE) => path.mode = "LOS"
    /\ (DistOf > Horizon \/ 2 * ClampedWeight > BLEND_ONE) => path.mode = "NLOS"

\* a call inside the blend band, beyond the horizon, labelled NLOS
C7_Witness ==
  /\ VuhfDone /\ Horizon > 0
  /\ ClampedWeight > 0 /\ ClampedWeight < BLEND_ONE
  /\ DistOf > Horizon /\ path.mode = "NLOS"

(***************************************************************************)
(* Claims about predictPath and predictLink (checked under SpecLink)       *)
(***************************************************************************)
LinkDone == pc = "done" /\ op = "predictLink"

\* C2: predictPath / predictLink use the HF solver exactly when
\* tx.frequency_MHz < 30 and solveVuhf otherwise (30 MHz itself is V/UHF);
\* the mode is GROUND, IONO, NVIS or BLOCKED below 30 MHz and LOS or NLOS
\* from 30 MHz up; DIFFRACTION is never returned.
C2_Routing ==
  LinkDone =>
    /\ tx.frequency_MHz < 300 =>
         /\ path = (IF hfBuild = "v15" THEN solveHF(tx, rx, env, ctx, ulp)
                    ELSE solveHF_p3(tx, rx, env, ctx))
         /\ path.mode \in {"GROUND", "IONO", "NVIS", "BLOCKED"}
    /\ tx.frequency_MHz >= 300 =>
         /\ path = solveVuhf(tx, rx, env, ctx, ulp)
         /\ path.mode \in {"LOS", "NLOS"}
    /\ link.mode = path.mode
    /\ link.mode # "DIFFRACTION"

\* a link at exactly 30 MHz, solved by the V/UHF solver
C2_Witness ==
  /\ LinkDone /\ tx.frequency_MHz = 300
  /\ path = solveVuhf(tx, rx, env, ctx, ulp)
  /\ link.mode \in {"LOS", "NLOS"}

\* C8: predictLink returns margin_dB = pr_dBm - sensitivity_dBm unclamped,
\* pr_dBm = EIRP + rx.gain_dBi - path.loss_dB - rx.cable_dB with the solver's
\* loss unchanged (the 1e6 dB sentinel included), sensitivity_dBm from the
\* receiver alone, and the mode of the path result.
C8_LinkBudget ==
  LinkDone =>
    LET EIRP == eirp_dBm(tx.power_W, tx.gain_dBi, tx.cable_dB)
    IN /\ link.sensitivity_dBm =
            Fin(-17400 + dB10(Max(rx.bandwidth_Hz, 1)) + rx.noiseFigure_dB
                  + rx.requiredSNR_dB)
       /\ (isFinite(EIRP) /\ isFinite(path.loss_dB)) =>
            /\ link.pr_dBm = Fin(EIRP.v + rx.gain_dBi - path.loss_dB.v - rx.cable_dB)
            /\ link.margin_dB = Fin(link.pr_dBm.v - link.sensitivity_dBm.v)
       /\ link.margin_dB = NumSub(link.pr_dBm, link.sensitivity_dBm)
       /\ link.mode = path.mode

\* a BLOCKED path: the sentinel reaches pr_dBm and margin_dB unclamped
C8_Witness ==
  /\ LinkDone /\ tx.power_W > 0 /\ path = Blocked
  /\ isFinite(link.pr_dBm) /\ link.pr_dBm.v < 20000 - BLOCKED_LOSS
  /\ isFinite(link.margin_dB) /\ link.margin_dB.v < 40000 - BLOCKED_LOSS

\* C10 (as stated): for every input the data model allows (power 0 W and
\* distance 0 or negative included) predictLink returns finite pr_dBm,
\* sensitivity_dBm and margin_dB.
C10_FiniteLink ==
  LinkDone =>
    /\ isFinite(link.pr_dBm)
    /\ isFinite(link.sensitivity_dBm)
    /\ isFinite(link.margin_dB)

(***************************************************************************)
(* Claims about sessions of calls (checked under SpecSession)              *)
(***************************************************************************)
\* two returned calls of the session with identical arguments have
\* identical results
SameInputsSameOutputs ==
  \A i, j \in DOMAIN history :
    history[i].args = history[j].args
      => (history[i].path = history[j].path /\ history[i].link = history[j].link)

SkyRegimeAt(foF2) ==
  IF op = "solveHF_p3"
  THEN skywave_loss_dB_p3(DistOf, tx.frequency_MHz, foF2, tx.height_m)
  ELSE skywave_loss_dB(DistOf, tx.frequency_MHz, foF2, ulp)

NvisRegimeAt(foF2) ==
  IF op = "solveHF_p3"
  THEN nvis_loss_dB_p3(DistOf, tx.frequency_MHz, foF2, tx.height_m)
  ELSE nvis_loss_dB(DistOf, tx.frequency_MHz, foF2)

\* the solver's answer to the same call with foF2 replaced
SolveAtFoF2(foF2) ==
  LET c == [ctx EXCEPT !.hf.foF2_MHz = foF2]
  IN IF op = "solveHF_p3" THEN solveHF_p3(tx, rx, env, c)
     ELSE solveHF(tx, rx, env, c, ulp)

\* values of foF2 above the call's own
HigherFoF2 ==
  {g \in FoF2Set \cup {hf_foF2(ctx) + 1, hf_foF2(ctx) + 25, 2 * hf_foF2(ctx), 300} :
     g > hf_foF2(ctx)}

\* C12: the MUF gate is monotonic in foF2: with frequency, distance,
\* transmitter and NVIS setting fixed, a sky-wave or NVIS regime that is not
\* BLOCKED at the call's foF2 is not BLOCKED at any larger foF2, and a call
\* that returns IONO or NVIS does not return BLOCKED at a larger foF2.
C12_MufMonotonic ==
  (HFDone /\ ctx.hf.present) =>
    \A g \in HigherFoF2 :
      /\ SkyRegimeAt(hf_foF2(ctx)).mode # "BLOCKED" => SkyRegimeAt(g).mode # "BLOCKED"
      /\ NvisRegimeAt(hf_foF2(ctx)).mode # "BLOCKED" => NvisRegimeAt(g).mode # "BLOCKED"
      /\ path.mode \in {"IONO", "NVIS"} => SolveAtFoF2(g).mode \in {"IONO", "NVIS"}

\* a call BLOCKED by the MUF gate that a larger foF2 turns into IONO
C12_Witness ==
  /\ HFDone /\ ctx.hf.present /\ hf_foF2(ctx) > 0 /\ hf_mode(ctx) = "sky"
  /\ path.mode = "BLOCKED" /\ ~MufGatePasses
  /\ \E g \in HigherFoF2 : SolveAtFoF2(g).mode = "IONO"

\* the NVIS MUF gate f <= foF2 * sec(alpha_NVIS) of the call's source
NvisMufGatePasses ==
  IF op = "solveHF_p3"
  THEN tx.frequency_MHz * 100
         <= muf_MHz_p3(hf_foF2(ctx), takeoff_angle_deg_p3(tx.height_m, tx.frequency_MHz))
  ELSE tx.frequency_MHz * 1000 <= hf_foF2(ctx) * NVIS_SEC_MILLI

SolveAtHF(foF2, nvis) ==
  LET c == [ctx EXCEPT !.hf.foF2_MHz = foF2, !.hf.NVIS_enabled = nvis]
  IN IF op = "solveHF_p3" THEN solveHF_p3(tx, rx, env, c)
     ELSE solveHF(tx, rx, env, c, ulp)

GroundLossOver(g) ==
  IF op = "solveHF_p3"
  THEN groundwave_loss_dB_p3(DistOf, tx.frequency_MHz, g, tx.height_m, rx.height_m)
  ELSE groundwave_loss_dB(DistOf, tx.frequency_MHz, g)

\* the class-dependent term of that loss, finer than the loss's 0.01 dB
GroundTermOver(g) ==
  IF op = "solveHF_p3"
  THEN ground_arg_p3(DistOf, tx.frequency_MHz, g)
  ELSE groundwave_excess_fine(DistOf, tx.frequency_MHz, g)

\* C15: for f <= 10 MHz and 0 < d <= 300 km the ground-wave loss is strictly
\* ordered by ground class, sea < wet < dry, in both HF sources: the
\* class-dependent term is strictly ordered on every such path, the loss in
\* 0.01 dB never inverts the order and is strictly ordered from 50 km on; a
\* 'ground' call returns the loss of its own class.
C15_GroundClassOrder ==
  (HFDone /\ tx.frequency_MHz <= 100 /\ DistOf > 0 /\ DistOf <= 300000) =>
    /\ \A g \in GroundClasses : isFinite(GroundLossOver(g))
    /\ GroundTermOver("sea") < GroundTermOver("wet")
    /\ GroundTermOver("wet") < GroundTermOver("dry")
    /\ GroundLossOver("sea").v <= GroundLossOver("wet").v
    /\ GroundLossOver("wet").v <= GroundLossOver("dry").v
    /\ DistOf >= 50000 =>
         /\ GroundLossOver("sea").v < GroundLossOver("wet").v
         /\ GroundLossOver("wet").v < GroundLossOver("dry").v
    /\ hf_mode(ctx) = "ground" =>
         path = [loss_dB |-> GroundLossOver(env.groundClass), mode |-> "GROUND"]

\* a ground-wave result over wet ground, strictly between sea and dry ground
C15_Witness ==
  /\ HFDone /\ path.mode = "GROUND" /\ env.groundClass = "wet"
  /\ tx.frequency_MHz <= 100 /\ DistOf > 0 /\ DistOf <= 300000
  /\ GroundLossOver("sea").v < path.loss_dB.v
  /\ path.loss_dB.v < GroundLossOver("dry").v

\* the distance solveVuhf works with: the call's distance floored to 1 m
VuhfDist == Max(DistOf, 1)

\* d_bp = 4 hT hR / lambda of the call, in centimetres
BreakpointOf ==
  MulDiv(4 * tx.height_m * rx.height_m, 10000, Max(lambda_m(tx.frequency_MHz), 1))

\* the call's distance is at most the breakpoint and at most 0.95 dH
BelowBreakpoint == 100 * VuhfDist <= BreakpointOf /\ 20 * VuhfDist <= 19 * Horizon

\* the same call in another environment
SolveVuhfIn(e) == solveVuhf(tx, rx, e, ctx, ulp)

\* C16: for every distance d (floored to 1 m) that is at most the two-slope
\* breakpoint 4 hT hR / lambda and at most 0.95 dH, the loss of solveVuhf is
\* the free-space loss 32.44 + 20 log10(d_km) + 20 log10(f_MHz), the mode is
\* LOS, and the result is the same for all six environment classes and any
\* foliage depth (wherever the environment's k-factor keeps d within 0.95 dH).
C16_FreeSpaceFloor ==
  (VuhfDone /\ BelowBreakpoint) =>
    /\ path = [loss_dB |-> Fin(fspl_dB(VuhfDist, tx.frequency_MHz)), mode |-> "LOS"]
    /\ \A e \in VuhfEnvs :
         20 * VuhfDist <= 19 * horizon_km(tx.height_m, rx.height_m, e.kFactor)
           => SolveVuhfIn(e) = path

\* a forest call with foliage at the breakpoint itself, more than 1 m away,
\* whose median candidate differs from the free-space loss
C16_Witness ==
  /\ VuhfDone /\ BelowBreakpoint
  /\ VuhfDist > 1 /\ 100 * (VuhfDist + 1) > BreakpointOf
  /\ env.environment = "forest" /\ env.foliageDepth_m > 0
  /\ NlosAt(VuhfDist) # path.loss_dB.v
  /\ path.loss_dB = Fin(fspl_dB(VuhfDist, tx.frequency_MHz))

\* Hata / COST-231 with the frequency clamped into 150..2000 MHz, the median
\* model doc.md and visual.md describe for 100 MHz <= f <= 2000 MHz
HataClampedAt(d) ==
  hata_dB(Max(d, 1), Min(Max(tx.frequency_MHz, 1500), 20000),
          tx.height_m, rx.height_m, env.environment).v

\* the median candidate solveVuhf computes at distance d
MedianAt(d) ==
  vuhf_median_dB(Max(d, 1), tx.frequency_MHz, tx.height_m, rx.height_m, env.environment)

\* the loss of the call if its median candidate were the clamped Hata model
LossWithClampedHata ==
  LET b == vuhf_blend(VuhfDist, Horizon)
      L_nlos == HataClampedAt(VuhfDist) + (LosAt(Horizon) - HataClampedAt(Horizon))
  IN ((BLEND_ONE - b) * LosAt(VuhfDist) + b * L_nlos) \div BLEND_ONE

\* C17: for 100 MHz <= f <= 2000 MHz the NLOS median of solveVuhf is
\* Hata/COST-231 evaluated with f clamped into [150, 2000] MHz (146 MHz is
\* computed as 150 MHz), and the loss returned is built on that median; the
\* log-distance fallback is the median only outside 100..2000 MHz.
C17_HataClamped ==
  VuhfDone =>
    LET f == tx.frequency_MHz
    IN /\ (f >= 1000 /\ f <= 20000) =>
            /\ MedianAt(VuhfDist) = HataClampedAt(VuhfDist)
            /\ path.loss_dB = Fin(LossWithClampedHata)
       /\ (f < 1000 \/ f > 20000) =>
            MedianAt(VuhfDist) = logDistance_dB(VuhfDist, f, envToN(env.environment))

\* the loss of the same call in a forest with the given foliage depth
LossInForest(has, depth) ==
  SolveVuhfIn([env EXCEPT !.environment = "forest", !.hasFoliageDepth = has,
                          !.foliageDepth_m = depth]).loss_dB.v

\* foliage depths probed, in metres: both Weissberger regimes and the 400 m cap
FoliageDepths == {1, 10, 14, 15, 30, 400}

\* C18: in a forest, at any distance d >= 1.05 dH, the loss of solveVuhf with
\* a positive foliage depth is strictly greater than with depth 0 or with no
\* depth given, and a larger depth (up to 400 m) never gives a smaller loss.
C18_FoliageAdds ==
  (VuhfDone /\ env.environment = "forest" /\ 20 * VuhfDist >= 21 * Horizon) =>
    /\ \A depth \in FoliageDepths :
         /\ LossInForest(TRUE, depth) > LossInForest(TRUE, 0)
         /\ LossInForest(TRUE, depth) > LossInForest(FALSE, 0)
    /\ \A d1, d2 \in FoliageDepths :
         d1 <= d2 => LossInForest(TRUE, d1) <= LossInForest(TRUE, d2)

\* the loss of the same call in another environment class
LossInClass(e) == SolveVuhfIn([env EXCEPT !.environment = e]).loss_dB.v

\* C19: for every frequency >= 30 MHz, in the Hata domain and in the
\* log-distance fallback alike, and every distance d >= 1.05 dH, the loss of
\* solveVuhf for environment urban is strictly greater than for environment
\* open and for environment water, all else equal.
C19_UrbanAboveOpen ==
  (VuhfDone /\ tx.frequency_MHz >= 300 /\ 20 * VuhfDist >= 21 * Horizon) =>
    /\ LossInClass("urban") > LossInClass("open")
    /\ LossInClass("urban") > LossInClass("water")

\* the 40 m example: 10 W, +5 dBi, 1 dB cable, 30 m mast, 7.1 MHz, foF2 = 8.0
\* MHz, 1000 km, automatic mode, solved by hfModel.ts
Example40m ==
  /\ LinkDone /\ hfBuild = "v15"
  /\ tx = TxOf(71, 300)
  /\ ctx.distance_km = 1000000
  /\ ctx.hf.present /\ ctx.hf.foF2_MHz = 80 /\ AutoMode

Example2m ==
  /\ LinkDone
  /\ tx = TxOf(1460, 300)
  /\ rx = [height_m |-> 15, bandwidth_Hz |-> 20000, noiseFigure_dB |-> 500,
           requiredSNR_dB |-> 1000, gain_dBi |-> 0, cable_dB |-> 0]
  /\ env.environment = "urban" /\ env.kFactor = 133
  /\ ctx.distance_km = 5000

\* C21: for Tx 10 W / +5 dBi / 1 dB cable / 30 m, Rx 0 dBi / 0 dB cable /
\* 1.5 m / 20 kHz / NF 5 dB / SNR 10 dB, urban, k = 1.33, 146 MHz and 5 km,
\* predictLink returns mode LOS and a margin of at least +20 dB.
C21_Example2m ==
  Example2m =>
    /\ link.mode = "LOS"
    /\ isFinite(link.margin_dB)
    /\ link.margin_dB.v >= 2000

\* the example returned: 5 km lies beyond the two-slope breakpoint and well
\* inside 0.95 dH, and the margin is the received power above sensitivity
C21_Witness ==
  /\ Example2m
  /\ 100 * VuhfDist > BreakpointOf /\ 20 * VuhfDist < 19 * Horizon
  /\ link.mode = "LOS"
  /\ link.margin_dB = Fin(link.pr_dBm.v - link.sensitivity_dBm.v)
  /\ link.margin_dB.v >= 2000

\* distances at which the loss of the call is compared with its own: the
\* input grid around the horizon and the fortieths of dH across the blend band
ProbeDistances ==
  DistVuhf(Horizon) \cup {(Horizon * i) \div 40 : i \in 36..44}

\* C27: for fixed tx, rx and env with f >= 30 MHz the loss of solveVuhf is
\* non-decreasing in distance: loss(d1) <= loss(d2) for all d1 <= d2, across
\* the blend band [0.95 dH, 1.05 dH] and beyond the 20 km distance clamp of
\* the Hata model as well.  Differences of up to 0.02 dB are left to the
\* rounding of the fixed-point logarithms.
C27_MonotoneInDistance ==
  (VuhfDone /\ tx.frequency_MHz >= 300) =>
    \A d1 \in ProbeDistances : d1 <= DistOf => LossAt(d1) <= path.loss_dB.v + 2

(***************************************************************************)
(* Claims about every solver (checked under Spec)                          *)
(***************************************************************************)
\* the path result of the same call at distance d (metres)
PathAtDistance(d) ==
  LET c == [ctx EXCEPT !.distance_km = d]
  IN CASE op = "solveHF" -> solveHF(tx, rx, env, c, ulp)
       [] op = "solveHF_p3" -> solveHF_p3(tx, rx, env, c)
       [] op = "solveVuhf" -> solveVuhf(tx, rx, env, c, ulp)
       [] OTHER -> predictPath(tx, rx, env, c, ulp, hfBuild)

\* C22: the path distance is floored to 0.001 km inside the solvers: for
\* every distance_km <= 0.001, zero and negative values included, solveHF
\* and solveVuhf (called directly or through predictLink) return exactly the
\* loss and mode they return for distance_km = 0.001.
C22_DistanceFloor ==
  (pc = "done" /\ ctx.distance_km <= 1) =>
    /\ path = PathAtDistance(1)
    /\ op = "predictLink" => link = predictLink(tx, rx, env, [ctx EXCEPT !.distance_km = 1],
                                                ulp, hfBuild)

\* a ground-wave result for a negative distance, equal to the one for 1 m
C22_Witness ==
  /\ pc = "done" /\ op = "solveHF" /\ ctx.distance_km < 0
  /\ path.mode = "GROUND" /\ isFinite(path.loss_dB)
  /\ path = PathAtDistance(1)

\* C25: every PathResult returned by solveHF or solveVuhf has loss_dB >= 0,
\* for every frequency > 0 and every distance (after the 0.001 km floor), in
\* every mode, GROUND at very short range included.
C25_NonNegativeLoss ==
  (pc = "done" /\ tx.frequency_MHz > 0) =>
    /\ isFinite(path.loss_dB)
    /\ path.loss_dB.v >= 0

(***************************************************************************)
(* Claims about the shape of the HF coverage (checked under SpecHF)        *)
(***************************************************************************)
\* C23: one-hop sky-wave coverage is a filled disk without skip zone: for
\* fixed frequency, foF2 and transmitter with NVIS off, if solveHF returns
\* IONO at a distance d, it returns a mode other than BLOCKED at every
\* shorter distance d' with 0 < d' < d.
C23_FilledDisk ==
  (HFDone /\ ~hf_nvis(ctx) /\ path.mode = "IONO") =>
    \A d \in DistHF : (0 < d /\ d < DistOf) => PathAtDistance(d).mode # "BLOCKED"

\* the sky-wave regime of hfModel.ts for the call with a hop range computed
\* without rounding error
SkyRegimeExact == skywave_loss_dB(DistOf, tx.frequency_MHz, hf_foF2(ctx), 0)

\* C28: in skywave_loss_dB of hfModel.ts the takeoff angle is derived from
\* the distance, so the hop ground range equals d and the hop count is 1 at
\* every distance: the regime never carries the 3 dB reflection penalty, and
\* inside its domain (f <= 30 MHz, d beyond 50 km and the skip distance, MUF
\* gate passing) it is never BLOCKED for being too far.
C28_SingleHop ==
  (HFDone /\ op = "solveHF") =>
    /\ path.mode = "IONO" => (HopCount = 1 /\ path = SkyRegimeExact)
    /\ (/\ tx.frequency_MHz <= 300 /\ hf_foF2(ctx) > 0 /\ MufGatePasses
        /\ DistOf > 50000 /\ DistOf >= first_hop_skip_m) => SkyRegime.mode = "IONO"

\* the takeoff angle part_003 computes for the call, in hundredths of a degree
TakeoffOf_p3 == takeoff_angle_deg_p3(tx.height_m, tx.frequency_MHz)

LastAnswered == answered[Len(answered)]

\* px, py from 0 in steps of pxStep while below width, height
GridSamples(req) ==
  {<<i * req.pxStep, j * req.pxStep>> :
     i \in 0..((req.width - 1) \div req.pxStep),
     j \in 0..((req.height - 1) \div req.pxStep)}

CellsAt(cells, p) == {i \in 1..Len(cells) : <<cells[i].x, cells[i].y>> = p}

\* C26: the worker handles the posted requests one by one and posts one
\* response for each; the response holds exactly one cell for every grid
\* sample whose evaluation did not throw, with the values predictLink gives
\* for that sample, and no cell for a sample whose evaluation threw.
C26_EverySampleVisited ==
  /\ Len(answered) + Len(inbox) = Len(posted)
  /\ Len(outbox) <= Len(answered)
  /\ answered # <<>> =>
       LET req == LastAnswered.request
           cells == LastAnswered.response.cells
       IN /\ req = posted[Len(answered)]
          /\ outbox # <<>> => outbox[Len(outbox)] = LastAnswered.response
          /\ \A p \in GridSamples(req) :
               IF p \in LastAnswered.thrown
               THEN CellsAt(cells, p) = {}
               ELSE /\ Cardinality(CellsAt(cells, p)) = 1
                    /\ \A i \in CellsAt(cells, p) :
                         cells[i] = EvaluateSample(req, p[1], p[2], ulp, hfBuild)
          /\ \A i \in 1..Len(cells) : <<cells[i].x, cells[i].y>> \in GridSamples(req)

\* a batch of four samples in which the second sample threw and the two
\* samples after it are in the response
C26_Witness ==
  /\ answered # <<>>
  /\ LastAnswered.thrown = {<<PX_STEP, 0>>}
  /\ Cardinality(GridSamples(LastAnswered.request)) = 4
  /\ Len(LastAnswered.response.cells) = 3
  /\ CellsAt(LastAnswered.response.cells, <<0, PX_STEP>>) # {}
  /\ CellsAt(LastAnswered.response.cells, <<PX_STEP, PX_STEP>>) # {}
  /\ Len(answered) + Len(inbox) = Len(posted)

\* what predictLink returns for the sample at (px, py) of a request
EngineLink(req, px, py) ==
  predictLink(req.tx, req.rx, req.env,
              CtxOf(Max(SampleDistance(req, px, py), 1), req.ctxBase), ulp, hfBuild)

\* the marks a response leaves on a blank canvas of its own size
PaintedBy(data) ==
  PaintCells({}, [width |-> data.width, height |-> data.height], data.cells, 1)

MarksAt(cv, c) == {q \in cv : q.x = c.x /\ q.y = c.y}

\* the margin clamped into [-10, +30] dB, as a share of the window in
\* thousandths
ClampedMargin(m) ==
  ((Max(-1000, Min(3000, m)) + 1000) * 1000) \div 4000

\* C24: a cell of a response is painted if and only if its pr_dBm is at
\* least -110 dBm; a pr_dBm or margin_dB that the engine returns non-finite
\* is reported as -Infinity and the cell is not painted, a finite one is
\* reported as it is; a painted cell gets the colour index of its margin
\* clamped into [-10, +30] dB; every mark on the canvas is such a mark.
C24_PaintCutoff ==
  /\ answered # <<>> =>
       LET req == LastAnswered.request
           data == LastAnswered.response
       IN \A i \in 1..Len(data.cells) :
            LET c == data.cells[i]
                l == EngineLink(req, c.x, c.y)
                marks == MarksAt(PaintedBy(data), c)
            IN /\ (marks # {}) <=> (isFinite(c.pr_dBm) /\ c.pr_dBm.v >= -11000)
               /\ IF isFinite(l.pr_dBm) THEN c.pr_dBm = l.pr_dBm
                  ELSE c.pr_dBm = NegInf /\ marks = {}
               /\ IF isFinite(l.margin_dB) THEN c.margin_dB = l.margin_dB
                  ELSE c.margin_dB = NegInf /\ marks = {}
               /\ \A q \in marks :
                    /\ isFinite(c.margin_dB)
                    /\ q.t = Fin(ClampedMargin(c.margin_dB.v))
  /\ \A q \in canvas :
       \E i \in 1..Len(answered) : q \in PaintedBy(answered[i].response)

\* the canvas shows a cell whose margin lies inside the window while the
\* newest response holds a sample for which the engine returned NaN
C24_Witness ==
  /\ \E q \in canvas : isFinite(q.t) /\ q.t.v > 0 /\ q.t.v < 1000
  /\ answered # <<>>
  /\ \E i \in 1..Len(LastAnswered.response.cells) :
       LET c == LastAnswered.response.cells[i]
           l == EngineLink(LastAnswered.request, c.x, c.y)
       IN /\ isNaN(l.pr_dBm) /\ isNaN(l.margin_dB)
          /\ c.pr_dBm = NegInf /\ c.margin_dB = NegInf
          /\ MarksAt(PaintedBy(LastAnswered.response), c) = {}

\* the last n entries of a sequence
Newest(seq, n) == SubSeq(seq, Len(seq) - n + 1, Len(seq))

\* C30: the worker answers the posted requests in posting order, one
\* response each, and the page receives the responses in that order, so a
\* response never arrives after the response to a request posted later;
\* once every posted request is answered and its response delivered, the
\* canvas shows exactly the painting of the response to the request posted
\* last.
C30_LatestRequestShown ==
  /\ Len(answered) + Len(inbox) = Len(posted)
  /\ inbox = Newest(posted, Len(inbox))
  /\ \A i \in 1..Len(answered) : answered[i].request = posted[i]
  /\ Len(outbox) <= Len(answered)
  /\ outbox = [i \in 1..Len(outbox) |->
                 answered[Len(answered) - Len(outbox) + i].response]
  /\ (inbox = <<>> /\ outbox = <<>>) =>
       /\ LastAnswered.request = posted[Len(posted)]
       /\ LastAnswered.request =
            CoverageRequest(view, canvasSize, tx, rx, env, ctx.hf)
       /\ canvas = PaintedBy(LastAnswered.response)

\* after a change of the props every request is answered and the canvas
\* shows a non-empty painting that differs from the painting of
\* the first response
C30_Witness ==
  /\ inbox = <<>> /\ outbox = <<>>
  /\ Len(posted) = MaxRequests
  /\ posted[Len(posted)] # posted[1]
  /\ posted[Len(posted)].tx # posted[1].tx
  /\ canvas # {}
  /\ canvas # PaintedBy(answered[1].response)
  /\ canvas = PaintedBy(LastAnswered.response)
====
